---- MODULE Spec2Model ----
(***************************************************************************)
(* Control plane of the ECMP / HULA fabric: SwitchManager (the Thrift      *)
(* client wrapper), ECMPController and HULAController, with the switch     *)
(* agent and the probe-injection threads they talk to.                     *)
(*                                                                         *)
(* Strings of the input are kept by their parts: a prefix "10.0.1.0/24" is *)
(* the list of its '/'-separated parts, each the list of its '.'-separated *)
(* numbers, << <<10,0,1,0>>, <<24>> >>; a MAC "00:00:00:00:01:02" is the   *)
(* list of its hex digits once the ':' are removed.  Byte strings are      *)
(* lists of numbers 0..255.                                                *)
(***************************************************************************)
EXTENDS Integers, Sequences, FiniteSets, TLC

(* ------------------------------ bounds -------------------------------- *)
MaxSwitches == 2
MaxGroups   == 2
MaxNextHops == 2
MaxEntries  == 6
MaxFailures == 1
MaxProbes   == 2
MaxThreads  == 3
MaxTicks    == 2
MaxUtil     == 1
MaxConnects == 2
MaxIndex    == 1
MaxCalls    == 2
MaxSleeps   == 1
StaleWindow == 1

(* ------------------------ times of the program ------------------------ *)
\* --probe-interval of the runs, in seconds
ProbeInterval == 1
\* monitor_path_utilization: time.sleep(5)
MonitorPeriod == 5
\* the values of --monitor: none, one round (the sleep ends it), two rounds
MonitorDurations == {0, 1, MonitorPeriod + 1}

(* --------------------------- pure helpers ----------------------------- *)
RECURSIVE Pow(_, _)
Pow(b, n) == IF n = 0 THEN 1 ELSE b * Pow(b, n - 1)

\* num.to_bytes(num_bytes, 'big') raises OverflowError outside this range
FitsBytes(num, num_bytes) == num >= 0 /\ (num \div Pow(256, num_bytes - 1)) < 256

int_to_bytes(num, num_bytes) ==
    [i \in 1..num_bytes |-> (num \div Pow(256, num_bytes - i)) % 256]

\* parts = ip_str.split('.'); parts[0..3] are read, an IndexError below four
ip_to_int(parts) ==
    parts[1] * 16777216 + parts[2] * 65536 + parts[3] * 256 + parts[4]

\* bytes.fromhex(mac_str.replace(':', '')): two hex digits make a byte
mac_to_bytes(digits) ==
    [i \in 1..(Len(digits) \div 2) |-> 16 * digits[2 * i - 1] + digits[2 * i]]

Get(d, k, dflt) == IF k \in DOMAIN d THEN d[k] ELSE dflt

(* ------------------------------ inputs -------------------------------- *)
MacOf(i) == <<0, 0, 0, 0, 0, 0, 0, 0, 0, 1, 0, i>>

NextHopsOf(k) == [i \in 1..k |-> [port |-> i, mac |-> MacOf(i)]]

\* group j of switch s: prefix 10.0.s.0/24 (j = 1) or 10.j.s.0/24, k next-hops
GroupOf(s, j, k) ==
    [dst_prefix |-> << <<10, j - 1, s, 0>>, <<24>> >>,
     group_id   |-> j,
     next_hops  |-> NextHopsOf(k)]

SwitchOf(s, ng, k) ==
    [switch_id   |-> s,
     ecmp_groups |-> [j \in 1..ng |-> GroupOf(s, j, k)]]

TopologyOf(ns, ng, k) ==
    [switches |-> [s \in 1..ns |-> SwitchOf(s, ng, k)]]

\* a topology file that parses but lacks a field: one switch, one group, whose second
\* next-hop has no "mac"
MalformedTopology ==
    [switches |-> <<[switch_id   |-> 1,
                     ecmp_groups |-> <<[dst_prefix |-> << <<10, 0, 1, 0>>, <<24>> >>,
                                        group_id   |-> 1,
                                        next_hops  |-> <<[port |-> 1, mac |-> MacOf(1)],
                                                         [port |-> 2]>>]>>]>>]

\* the same malformed switch followed by a well-formed one
MalformedFirstOfTwo ==
    [switches |-> <<MalformedTopology.switches[1], SwitchOf(2, 1, 1)>>]

Topologies ==
    { TopologyOf(ns, ng, k) :
        <<ns, ng, k>> \in { t \in (1..MaxSwitches) \X (0..MaxGroups) \X (0..MaxNextHops) :
                              t[1] * t[2] * (1 + t[3]) <= MaxEntries } }
    \cup {MalformedTopology, MalformedFirstOfTwo}

FlowletOf(s, j) ==
    [dst_prefix |-> << <<10, j - 1, s, 0>>, <<24>> >>, port |-> j, mac |-> MacOf(j)]

ProbeEntryOf(s, j) == [dst_tor_id |-> j, port |-> j, mac |-> MacOf(j)]

ProbeOf(i) == [dst_tor_id |-> i, src_mac |-> MacOf(0), dst_mac |-> MacOf(i)]

HulaSwitchOf(s, nf, np) ==
    [switch_id       |-> s,
     flowlet_entries |-> [j \in 1..nf |-> FlowletOf(s, j)],
     probe_entries   |-> [j \in 1..np |-> ProbeEntryOf(s, j)]]

HulaTopologyOf(ns, nf, np, n) ==
    [switches     |-> [s \in 1..ns |-> HulaSwitchOf(s, nf, np)],
     probe_config |-> [probes |-> [i \in 1..n |-> ProbeOf(i)]]]

\* a file whose second probe descriptor has no "dst_mac"
MalformedProbeTopology ==
    [switches     |-> <<HulaSwitchOf(1, 0, 0)>>,
     probe_config |-> [probes |-> <<ProbeOf(1), [dst_tor_id |-> 2, src_mac |-> MacOf(0)]>>]]

\* files without probes, for every number of switches and of entries; files with
\* 1..MaxProbes probes for one switch without entries; a file with one probe for
\* MaxSwitches switches with one flowlet entry and one probe entry each
HulaTopologies ==
    { HulaTopologyOf(t[1], t[2], t[2], 0) :
        t \in { u \in (1..MaxSwitches) \X (0..MaxGroups) : u[1] * u[2] * 2 <= MaxEntries } }
    \cup { HulaTopologyOf(1, 0, 0, n) : n \in 1..MaxProbes }
    \cup { HulaTopologyOf(MaxSwitches, 1, 1, 1) }
    \cup {MalformedProbeTopology}

\* a controller object used by a caller of its methods: only the probes matter,
\* two descriptors for ToRs 1 and 2, or one for ToR 66051
ApiTopologies ==
    { HulaTopologyOf(0, 0, 0, 2) }
    \cup { [switches |-> <<>>,
            probe_config |-> [probes |-> <<[dst_tor_id |-> 66051, src_mac |-> MacOf(0),
                                            dst_mac |-> MacOf(1)]>>]] }

(* ------------------------------- state -------------------------------- *)
VARIABLES
    kind,          \* "ecmp": ecmp_controller.main; "hula": hula_controller.main;
                   \* "api": a caller of the methods of a HULAController and of its
                   \* SwitchManager
    readable,      \* whether the topology file can be opened and parsed
    content,       \* what the topology file holds
    match_types,   \* whether the names BmMatchParamLPM / BmMatchParamExact resolve when an
                   \* entry is built.  FALSE is the controller modules as written: they
                   \* import only BmMatchParam and BmMatchParamType, so the lookup raises
                   \* NameError.  TRUE is a process in which the two names are supplied.
    run,           \* 1 = first run of the program, 2 = second run, same input
    args_clear,    \* --clear of this run
    args_iface,    \* --interface of this run is a non-empty string
    args_monitor,  \* --monitor of this run, in seconds (0 = no monitoring)
    pc, sw, gi, ni,\* main thread: statement, switch index, group/entry index, next-hop index
    loaded,        \* self.topology is not None
    client,        \* manager.client: 0 = None, else the connection it wraps
    transport,     \* manager.transport: 0 = None, else the connection
    conns,         \* the transports created in this run: "unopened", "open", "closed",
                   \* or "reset" (closed by the remote side)
    tables,        \* the switch agent's match-action tables
    log,           \* the SwitchManager calls of this run, in order
    prev_log,      \* the calls of the first run, kept for the second
    fails,         \* channel failures so far (bounded by MaxFailures)
    mi, polls,     \* monitor_path_utilization: next read of the round, rounds done
    start_time,    \* monitor_path_utilization: the local start_time
    last_read,     \* monitor_path_utilization: the locals tor_id, util and port,
                   \* -1 where the read failed
    running,       \* HULAController.running
    probe_thread,  \* HULAController.probe_thread: 0 = None, else the thread
    threads,       \* the injector threads started: statement, probe index, whether
                   \* it has sent a packet yet, and its local pkt
    stop_returned, \* stop_probe_injection has returned and no start was called since
    registers,     \* the switch's registers, by name and index
    now,           \* the clock, int(time.time()): whole seconds
    deadline       \* the threads inside time.sleep (0: the main thread, t: injector t)
                   \* and the time before which each does not return

vars == <<kind, readable, content, match_types, run, args_clear, args_iface, args_monitor,
          pc, sw, gi, ni, loaded, client, transport, conns, tables, log, prev_log, fails,
          mi, polls, last_read, start_time, running, probe_thread, threads, stop_returned,
          registers, now, deadline>>

TableNames == {"ecmp_group", "ecmp_nhop", "flowlet_table", "probe_fwd_table"}

\* the registers of the HULA data plane: per destination ToR the utilization of the
\* best path, the port of that path, and the time the two were last written
RegNames == {"path_util_reg", "best_port_reg", "path_time_reg"}

\* for tor_id in range(1, 4)
ToRs == 1..3

\* the other uplink towards ToR d
OtherPort(d) == (d % 3) + 1

\* the registers before any probe has come back: ToR d behind port d, as configured
InitRegisters ==
    [r \in RegNames |-> [d \in ToRs |->
        IF r = "path_util_reg" THEN MaxUtil ELSE IF r = "best_port_reg" THEN d ELSE 0]]

(* --------------------------- SwitchManager ---------------------------- *)
\* the Thrift call goes through only on a client whose transport is open
Connected == client # 0 /\ conns[client] = "open"

\* the outcomes a remote call can have: it returns, or it raises
RpcOutcomes ==
    IF ~Connected THEN {FALSE}
    ELSE IF fails < MaxFailures THEN {TRUE, FALSE} ELSE {TRUE}

RpcFails(ok) == IF Connected /\ ~ok THEN fails + 1 ELSE fails

\* SwitchManager.connect: client and transport are assigned, then open()
ConnectOutcomes == IF fails < MaxFailures THEN {TRUE, FALSE} ELSE {TRUE}

\* a connect that assigns client and transport only once the open has succeeded
connect_AssignAfterOpen(ok) ==
    /\ conns' = Append(conns, IF ok THEN "open" ELSE "unopened")
    /\ client' = IF ok THEN Len(conns) + 1 ELSE client
    /\ transport' = IF ok THEN Len(conns) + 1 ELSE transport
    /\ fails' = IF ok THEN fails ELSE fails + 1

connect(ok) ==
    /\ conns' = Append(conns, IF ok THEN "open" ELSE "unopened")
    /\ client' = Len(conns) + 1
    /\ transport' = Len(conns) + 1
    /\ fails' = IF ok THEN fails ELSE fails + 1

\* SwitchManager.disconnect: if self.transport: self.transport.close()
disconnect ==
    conns' = IF transport # 0 /\ conns[transport] \in {"open", "reset"}
             THEN [conns EXCEPT ![transport] = "closed"] ELSE conns

\* an add that reaches the switch at the manager's address only for the first switch
\* of the topology, those for the other switches going to switches of their own
AddEntryEffect_PerSwitchTarget(tbls, c) ==
    IF c.sw <= 1
    THEN [tbls EXCEPT ![c.table] =
            {e \in @ : e.key # c.key}
            \cup {[key |-> c.key, action |-> c.action, params |-> c.params]}]
    ELSE tbls

\* what bm_mt_add_entry leaves in the table when it returns
AddEntryEffect(tbls, c) ==
    [tbls EXCEPT ![c.table] =
        {e \in @ : e.key # c.key} \cup {[key |-> c.key, action |-> c.action, params |-> c.params]}]

\* a failed add that also takes the old entry for the key out of the table
add_table_entry_DropOnFail(tbls, c, ok) ==
    IF ok THEN AddEntryEffect(tbls, c)
    ELSE [tbls EXCEPT ![c.table] = {e \in @ : e.key # c.key}]

\* SwitchManager.add_table_entry: True and the entry installed, or False
add_table_entry(tbls, c, ok) == IF ok THEN AddEntryEffect(tbls, c) ELSE tbls

\* SwitchManager.clear_table
clear_table(tbls, table_name, ok) == IF ok THEN [tbls EXCEPT ![table_name] = {}] ELSE tbls

\* SwitchManager.read_register: the value, or -1 when the call raised
read_register(register_name, index, ok) ==
    IF ok THEN registers[register_name][index] ELSE -1

\* SwitchManager.write_register: the value is sent as it is, True; or False
write_register(regs, register_name, index, value, ok) ==
    IF ok THEN [regs EXCEPT ![register_name][index] = value] ELSE regs

Call(op, table_name, key, action, params, ok) ==
    [op |-> op, table |-> table_name, key |-> key, action |-> action,
     params |-> params, ok |-> ok, sw |-> sw]

(* --------------------------- ECMPController --------------------------- *)
\* add_ecmp_group: the exception raised while the arguments are built, or "none"
add_ecmp_group_exc(dst_prefix, prefix_len, group_id, num_paths) ==
    IF ~match_types THEN "NameError"
    ELSE IF Len(dst_prefix) < 4 THEN "IndexError"
    ELSE IF ~FitsBytes(ip_to_int(dst_prefix), 4) THEN "OverflowError"
    ELSE IF ~FitsBytes(group_id, 2) \/ ~FitsBytes(num_paths, 2) THEN "OverflowError"
    ELSE "none"

\* add_ecmp_group: the add_table_entry call it makes
add_ecmp_group(dst_prefix, prefix_len, group_id, num_paths, ok) ==
    Call("add", "ecmp_group",
         <<int_to_bytes(ip_to_int(dst_prefix), 4), <<prefix_len>>>>,
         "set_ecmp_group",
         <<int_to_bytes(group_id, 2), int_to_bytes(num_paths, 2)>>, ok)

add_next_hop_exc(group_id, hash_val, port, dst_mac) ==
    IF ~match_types THEN "NameError"
    ELSE IF ~FitsBytes(group_id, 2) \/ ~FitsBytes(hash_val, 2) THEN "OverflowError"
    ELSE IF Len(dst_mac) % 2 # 0 THEN "ValueError"
    ELSE IF ~FitsBytes(port, 2) THEN "OverflowError"
    ELSE "none"

add_next_hop(group_id, hash_val, port, dst_mac, ok) ==
    Call("add", "ecmp_nhop",
         <<int_to_bytes(group_id, 2), int_to_bytes(hash_val, 2)>>,
         "set_nhop",
         <<mac_to_bytes(dst_mac), int_to_bytes(port, 2)>>, ok)

\* configure_switch, lines 130-136: reading the group's fields
group_exc(group) ==
    IF "dst_prefix" \notin DOMAIN group THEN "KeyError"
    ELSE IF Len(group.dst_prefix) < 2 THEN "IndexError"
    ELSE IF Len(group.dst_prefix[2]) # 1 THEN "ValueError"
    ELSE IF "group_id" \notin DOMAIN group THEN "KeyError"
    ELSE IF "next_hops" \notin DOMAIN group THEN "KeyError"
    ELSE "none"

nhop_exc(nhop) ==
    IF "port" \notin DOMAIN nhop \/ "mac" \notin DOMAIN nhop THEN "KeyError" ELSE "none"

Switches == Get(content, "switches", <<>>)
CurSwitch == Switches[sw]
Groups == Get(CurSwitch, "ecmp_groups", <<>>)
CurGroup == Groups[gi]

NextHops == CurGroup.next_hops
CurNhop == NextHops[ni]

\* the bucket taken from how many next-hops of the group the switch holds
BucketOf_Installed(i) ==
    Cardinality({e \in tables["ecmp_nhop"] : e.key[1] = int_to_bytes(CurGroup.group_id, 2)})

\* the bucket counted from one
BucketOf_OneBased(i) == i

\* enumerate(next_hops): the index that goes with the i-th next-hop (i from 1)
BucketOf(i) == i - 1

\* the two tables clear_all_tables clears, in order
ClearTargets == IF kind = "ecmp" THEN <<"ecmp_group", "ecmp_nhop">>
                ELSE <<"flowlet_table", "probe_fwd_table">>

\* what a statement that is not about a sleep leaves alone: the inputs, the switch's
\* registers, the clock, the sleeps under way
inputs == <<kind, readable, content, match_types, registers, now, deadline>>
\* what a sleep leaves alone
asleep == <<kind, readable, content, match_types, registers>>
mgr == <<client, transport, conns>>
pos == <<sw, gi, ni>>
args == <<args_clear, args_iface, args_monitor>>
mon == <<mi, polls, last_read, start_time>>
thr == <<mon, running, probe_thread, threads, stop_returned>>

(* ------------------------------- Init --------------------------------- *)
NoRead == [tor_id |-> 0, util |-> 0, port |-> 0]

\* the state after construction, for a program `k` reading a file holding one of `files`
InitOf(k, files) ==
    /\ kind = k
    /\ readable \in (IF k = "api" THEN {TRUE} ELSE BOOLEAN)
    /\ content \in files
    /\ match_types \in BOOLEAN
    /\ run = 1
    /\ args_clear \in (IF k = "api" THEN {FALSE} ELSE BOOLEAN)
    /\ args_iface \in (IF k = "hula" THEN BOOLEAN ELSE {TRUE})
    /\ args_monitor \in (IF k = "hula" THEN MonitorDurations ELSE {0})
    /\ pc = (IF k = "api" THEN "api_idle" ELSE "main_connect")
    /\ sw = 0 /\ gi = 0 /\ ni = 0
    /\ loaded = (k = "api")
    /\ client = 0 /\ transport = 0 /\ conns = <<>>
    /\ tables = [t \in TableNames |-> {}]
    /\ log = <<>>
    /\ prev_log = <<>>
    /\ fails = 0
    /\ mi = 0 /\ polls = 0 /\ start_time = 0
    /\ last_read = NoRead
    /\ running = FALSE
    /\ probe_thread = 0
    /\ threads = <<>>
    /\ stop_returned = FALSE
    /\ deadline = <<>>

\* ecmp_controller.main or hula_controller.main is started
Init ==
    /\ InitOf("ecmp", Topologies) \/ InitOf("hula", HulaTopologies)
    /\ args_monitor < MonitorPeriod
    /\ registers = InitRegisters
    /\ now = 0

\* values of int(time.time()) that exercise each of the four timestamp bytes
Times == {0, 258, 66051, 16909060, 1730000000}

\* the seconds the run has taken: the clock, less its value at the start of the run
Elapsed ==
    now - (CHOOSE t0 \in Times : t0 <= now /\ \A u \in Times : u <= now => u <= t0)

\* time.sleep(secs) is called by thread k: it returns secs seconds from now at the
\* earliest
SleepCalled(k, secs) ==
    [j \in DOMAIN deadline \cup {k} |-> IF j = k THEN now + secs ELSE deadline[j]]
\* the clock when the sleep of thread k returns: the end of the sleep, or later when
\* the thread was not scheduled at once
WakeTime(k) == IF now >= deadline[k] THEN now ELSE deadline[k]
\* the sleep of thread k has returned, or was interrupted
SleepOver(k) == [j \in DOMAIN deadline \ {k} |-> deadline[j]]
\* a HULAController whose start/stop_probe_injection are called by a caller, with a
\* probe_config of one descriptor, made at clock 0 of the run
InitApi ==
    /\ InitOf("api", {HulaTopologyOf(0, 0, 0, 1)})
    /\ ~match_types
    /\ registers = InitRegisters
    /\ now = 0

\* the same controller object, made at one of the sample times
InitClock ==
    /\ InitOf("api", ApiTopologies)
    /\ ~match_types
    /\ registers = InitRegisters
    /\ now \in Times

\* a SwitchManager whose methods are called by a caller
InitReg ==
    /\ InitOf("api", ApiTopologies)
    /\ registers = InitRegisters
    /\ now = 0

\* hula_controller.py --interface '' on one switch, with no entries or with the
\* flowlet entry and the probe forwarding entry for ToR 3
MonTopologies ==
    { [switches |-> <<[switch_id |-> 1,
                       flowlet_entries |-> [j \in 1..n |-> FlowletOf(1, 3)],
                       probe_entries   |-> [j \in 1..n |-> ProbeEntryOf(1, 3)]]>>,
       probe_config |-> [probes |-> <<>>]] : n \in 0..1 }

InitMon ==
    /\ InitOf("hula", MonTopologies)
    /\ ~args_iface
    /\ registers = InitRegisters
    /\ now = 0

(* ------------------------ main(): both programs ----------------------- *)
\* if not controller.connect(): sys.exit(1)
MainConnect ==
    /\ pc = "main_connect"
    /\ \E ok \in ConnectOutcomes :
         /\ connect(ok)
         /\ pc' = IF ok THEN "main_clear" ELSE "exit"
    /\ UNCHANGED <<inputs, run, args, thr, pos, loaded, tables, log, prev_log>>

\* if args.clear: controller.clear_all_tables()  -- the flag is not set
MainNoClear ==
    /\ pc = "main_clear"
    /\ ~args_clear
    /\ pc' = "main_load"
    /\ UNCHANGED <<inputs, run, args, thr, pos, loaded, mgr, tables, log, prev_log, fails>>

\* clear_all_tables: one clear_table call per step, two in all
ClearAllTables ==
    /\ pc \in {"main_clear", "main_clear2"}
    /\ args_clear
    /\ LET t == ClearTargets[IF pc = "main_clear" THEN 1 ELSE 2] IN
       \E ok \in RpcOutcomes :
         /\ tables' = clear_table(tables, t, ok)
         /\ log' = Append(log, Call("clear", t, <<>>, "", <<>>, ok))
         /\ fails' = RpcFails(ok)
    /\ pc' = IF pc = "main_clear" THEN "main_clear2" ELSE "main_load"
    /\ UNCHANGED <<inputs, run, args, thr, pos, loaded, mgr, prev_log>>

\* load_topology: True and self.topology set, or False
LoadTopology ==
    /\ pc = "main_load"
    /\ loaded' = readable
    /\ pc' = IF readable THEN (IF kind = "ecmp" THEN "populate" ELSE "hula_switches")
             ELSE "main_disc"
    /\ UNCHANGED <<inputs, run, args, thr, pos, mgr, tables, log, prev_log, fails>>

\* the head of "for switch in self.topology.get('switches', [])"
PopNext(s) ==
    IF s <= Len(Switches) THEN pc' = "pop_connect" /\ sw' = s
    ELSE pc' = "main_disc" /\ sw' = 0

\* populate_from_topology, lines 156-160
PopulateFromTopology ==
    /\ pc = "populate"
    /\ IF ~loaded \/ DOMAIN content = {} THEN pc' = "main_disc" /\ sw' = 0
       ELSE PopNext(1)
    /\ UNCHANGED <<inputs, run, args, thr, gi, ni, loaded, mgr, tables, log, prev_log, fails>>

\* a failed connect ending the pass ("return False" for "continue")
AfterConnect_ReturnOnFail(ok) ==
    IF ok THEN pc' = "cfg_enter" /\ sw' = sw
    ELSE pc' = "main_disc" /\ sw' = 0

\* populate_from_topology, lines 161-164: a failed connect skips the switch
AfterConnect(ok) ==
    IF ok THEN pc' = "cfg_enter" /\ sw' = sw
    ELSE PopNext(sw + 1)

\* populate_from_topology, lines 161-162: if not self.connect(): continue
PopConnect ==
    /\ pc = "pop_connect"
    /\ \E ok \in ConnectOutcomes :
         /\ connect(ok)
         /\ AfterConnect(ok)
    /\ UNCHANGED <<inputs, run, args, thr, gi, ni, loaded, tables, log, prev_log>>

\* configure_switch resetting the group table before it fills it
ConfigureEnter_ClearFirst ==
    /\ pc = "cfg_enter"
    /\ pc' = "cfg_group" /\ gi' = 1
    /\ \E ok \in RpcOutcomes :
         /\ tables' = clear_table(tables, "ecmp_group", ok)
         /\ log' = Append(log, Call("clear", "ecmp_group", <<>>, "", <<>>, ok))
         /\ fails' = RpcFails(ok)
    /\ UNCHANGED <<inputs, run, args, thr, sw, ni, loaded, mgr, prev_log>>

\* configure_switch, line 126: switch_config['switch_id'] is read first
ConfigureEnter ==
    /\ pc = "cfg_enter"
    /\ IF "switch_id" \in DOMAIN CurSwitch
       THEN pc' = "cfg_group" /\ gi' = 1
       ELSE pc' = "raised" /\ gi' = gi
    /\ UNCHANGED <<inputs, run, args, thr, sw, ni, loaded, mgr, tables, log, prev_log, fails>>

\* the entries a controller has on record as failed: configure_switch drops the
\* result of every add_* call, and neither controller keeps such a record
divergent == {}

\* a failed group add skipping the group's next-hops
AfterGroupAdd_SkipOnFail(ok) ==
    IF ok THEN pc' = "cfg_nhop" /\ ni' = 1 /\ gi' = gi
    ELSE pc' = "cfg_group" /\ ni' = ni /\ gi' = gi + 1

\* configure_switch, lines 140-143: the result of add_ecmp_group is not looked at
AfterGroupAdd(ok) == pc' = "cfg_nhop" /\ ni' = 1 /\ gi' = gi

\* configure_switch, lines 128-140: one group, up to its add_ecmp_group call
ConfigureGroup ==
    /\ pc = "cfg_group"
    /\ IF gi > Len(Groups)
       THEN /\ pc' = "pop_disc"
            /\ UNCHANGED <<gi, ni, tables, log, fails>>
       ELSE LET g == CurGroup IN
            IF group_exc(g) # "none"
              \/ add_ecmp_group_exc(g.dst_prefix[1], g.dst_prefix[2][1],
                                    g.group_id, Len(g.next_hops)) # "none"
            THEN /\ pc' = "raised"
                 /\ UNCHANGED <<gi, ni, tables, log, fails>>
            ELSE \E ok \in RpcOutcomes :
                   LET c == add_ecmp_group(g.dst_prefix[1], g.dst_prefix[2][1],
                                           g.group_id, Len(g.next_hops), ok) IN
                   /\ tables' = add_table_entry(tables, c, ok)
                   /\ log' = Append(log, c)
                   /\ fails' = RpcFails(ok)
                   /\ AfterGroupAdd(ok)
    /\ UNCHANGED <<inputs, run, args, thr, sw, loaded, mgr, prev_log>>

\* populate_from_topology catching what configure_switch raises and going on with
\* the next switch
ConfigureNextHop_SkipSwitchOnError ==
    /\ pc = "cfg_nhop"
    /\ IF ni > Len(NextHops)
       THEN /\ pc' = "cfg_group"
            /\ gi' = gi + 1
            /\ UNCHANGED <<ni, tables, log, fails>>
       ELSE LET h == CurNhop IN
            IF nhop_exc(h) # "none"
              \/ add_next_hop_exc(CurGroup.group_id, BucketOf(ni), h.port, h.mac) # "none"
            THEN /\ pc' = "pop_disc"
                 /\ UNCHANGED <<gi, ni, tables, log, fails>>
            ELSE \E ok \in RpcOutcomes :
                   LET c == add_next_hop(CurGroup.group_id, BucketOf(ni), h.port, h.mac, ok) IN
                   /\ tables' = add_table_entry(tables, c, ok)
                   /\ log' = Append(log, c)
                   /\ fails' = RpcFails(ok)
                   /\ pc' = "cfg_nhop"
                   /\ ni' = ni + 1
                   /\ gi' = gi
    /\ UNCHANGED <<inputs, run, args, thr, sw, loaded, mgr, prev_log>>

\* configure_switch, lines 143-150: one next-hop, its add_next_hop call
ConfigureNextHop ==
    /\ pc = "cfg_nhop"
    /\ IF ni > Len(NextHops)
       THEN /\ pc' = "cfg_group"
            /\ gi' = gi + 1
            /\ UNCHANGED <<ni, tables, log, fails>>
       ELSE LET h == CurNhop IN
            IF nhop_exc(h) # "none"
              \/ add_next_hop_exc(CurGroup.group_id, BucketOf(ni), h.port, h.mac) # "none"
            THEN /\ pc' = "raised"
                 /\ UNCHANGED <<gi, ni, tables, log, fails>>
            ELSE \E ok \in RpcOutcomes :
                   LET c == add_next_hop(CurGroup.group_id, BucketOf(ni), h.port, h.mac, ok) IN
                   /\ tables' = add_table_entry(tables, c, ok)
                   /\ log' = Append(log, c)
                   /\ fails' = RpcFails(ok)
                   /\ pc' = "cfg_nhop"
                   /\ ni' = ni + 1
                   /\ gi' = gi
    /\ UNCHANGED <<inputs, run, args, thr, sw, loaded, mgr, prev_log>>

\* populate_from_topology, line 165: self.disconnect(), then the next switch
PopDisconnect ==
    /\ pc = "pop_disc"
    /\ disconnect
    /\ PopNext(sw + 1)
    /\ UNCHANGED <<inputs, run, args, thr, gi, ni, loaded, client, transport,
                   tables, log, prev_log, fails>>

\* main, last line: controller.disconnect()
MainDisconnect ==
    /\ pc = "main_disc"
    /\ disconnect
    /\ pc' = "done"
    /\ UNCHANGED <<inputs, run, args, thr, pos, loaded, client, transport,
                   tables, log, prev_log, fails>>

\* ecmp_controller.py is started again on the same topology file, against the same switch
SecondRun ==
    /\ kind = "ecmp"
    /\ pc \in {"done", "exit", "raised"}
    /\ run = 1
    /\ run' = 2
    /\ args_clear' \in BOOLEAN
    /\ args_iface' = args_iface
    /\ args_monitor' = args_monitor
    /\ pc' = "main_connect"
    /\ sw' = 0 /\ gi' = 0 /\ ni' = 0
    /\ loaded' = FALSE
    /\ client' = 0 /\ transport' = 0 /\ conns' = <<>>
    /\ prev_log' = log
    /\ log' = <<>>
    /\ mi' = 0 /\ polls' = 0 /\ start_time' = 0
    /\ last_read' = NoRead
    /\ running' = FALSE
    /\ probe_thread' = 0
    /\ threads' = <<>>
    /\ stop_returned' = FALSE
    /\ UNCHANGED <<inputs, tables, fails>>

(* --------------------------- HULAController --------------------------- *)
Flowlets == Get(CurSwitch, "flowlet_entries", <<>>)
ProbeEntries == Get(CurSwitch, "probe_entries", <<>>)
ProbeConfig == Get(content, "probe_config", <<>>)
Probes == Get(ProbeConfig, "probes", <<>>)

\* configure_switch, lines 117-126: reading a flowlet entry's fields
flowlet_exc(entry) ==
    IF "dst_prefix" \notin DOMAIN entry THEN "KeyError"
    ELSE IF Len(entry.dst_prefix) < 2 THEN "IndexError"
    ELSE IF Len(entry.dst_prefix[2]) # 1 THEN "ValueError"
    ELSE IF "port" \notin DOMAIN entry \/ "mac" \notin DOMAIN entry THEN "KeyError"
    ELSE "none"

add_flowlet_entry_exc(dst_prefix, prefix_len, port, dst_mac) ==
    IF ~match_types THEN "NameError"
    ELSE IF Len(dst_prefix) < 4 THEN "IndexError"
    ELSE IF ~FitsBytes(ip_to_int(dst_prefix), 4) THEN "OverflowError"
    ELSE IF Len(dst_mac) % 2 # 0 THEN "ValueError"
    ELSE IF ~FitsBytes(port, 2) THEN "OverflowError"
    ELSE "none"

add_flowlet_entry(dst_prefix, prefix_len, port, dst_mac, ok) ==
    Call("add", "flowlet_table",
         <<int_to_bytes(ip_to_int(dst_prefix), 4), <<prefix_len>>>>,
         "set_nhop",
         <<mac_to_bytes(dst_mac), int_to_bytes(port, 2)>>, ok)

probe_entry_exc(entry) ==
    IF "dst_tor_id" \notin DOMAIN entry \/ "port" \notin DOMAIN entry
       \/ "mac" \notin DOMAIN entry THEN "KeyError"
    ELSE "none"

add_probe_forwarding_entry_exc(dst_tor_id, port, dst_mac) ==
    IF ~match_types THEN "NameError"
    ELSE IF ~FitsBytes(dst_tor_id, 4) THEN "OverflowError"
    ELSE IF Len(dst_mac) % 2 # 0 THEN "ValueError"
    ELSE IF ~FitsBytes(port, 2) THEN "OverflowError"
    ELSE "none"

add_probe_forwarding_entry(dst_tor_id, port, dst_mac, ok) ==
    Call("add", "probe_fwd_table",
         <<int_to_bytes(dst_tor_id, 4)>>,
         "set_nhop",
         <<mac_to_bytes(dst_mac), int_to_bytes(port, 2)>>, ok)

\* main going on to the probe injection once the first switch is configured
HulaNext_FirstSwitchOnly(s) ==
    IF s <= 1 /\ s <= Len(Switches) THEN pc' = "hcfg_enter" /\ sw' = s
    ELSE pc' = "hula_start" /\ sw' = 0

\* main, line 260: the head of "for switch in controller.topology.get('switches', [])"
HulaNext(s) ==
    IF s <= Len(Switches) THEN pc' = "hcfg_enter" /\ sw' = s
    ELSE pc' = "hula_start" /\ sw' = 0

HulaSwitches ==
    /\ pc = "hula_switches"
    /\ HulaNext(1)
    /\ UNCHANGED <<inputs, run, args, thr, gi, ni, loaded, mgr, tables, log, prev_log, fails>>

\* configure_switch, line 113: switch_config['switch_id'] is read first
HulaConfigureEnter ==
    /\ pc = "hcfg_enter"
    /\ IF "switch_id" \in DOMAIN CurSwitch
       THEN pc' = "hcfg_flowlet" /\ gi' = 1
       ELSE pc' = "raised" /\ gi' = gi
    /\ UNCHANGED <<inputs, run, args, thr, sw, ni, loaded, mgr, tables, log, prev_log, fails>>

\* configure_switch, lines 116-127: one flowlet entry
HulaConfigureFlowlet ==
    /\ pc = "hcfg_flowlet"
    /\ IF gi > Len(Flowlets)
       THEN /\ pc' = "hcfg_probe"
            /\ gi' = 1
            /\ UNCHANGED <<tables, log, fails>>
       ELSE LET e == Flowlets[gi] IN
            IF flowlet_exc(e) # "none"
              \/ add_flowlet_entry_exc(e.dst_prefix[1], e.dst_prefix[2][1], e.port, e.mac) # "none"
            THEN /\ pc' = "raised"
                 /\ UNCHANGED <<gi, tables, log, fails>>
            ELSE \E ok \in RpcOutcomes :
                   LET c == add_flowlet_entry(e.dst_prefix[1], e.dst_prefix[2][1],
                                              e.port, e.mac, ok) IN
                   /\ tables' = add_table_entry(tables, c, ok)
                   /\ log' = Append(log, c)
                   /\ fails' = RpcFails(ok)
                   /\ pc' = "hcfg_flowlet"
                   /\ gi' = gi + 1
    /\ UNCHANGED <<inputs, run, args, thr, sw, ni, loaded, mgr, prev_log>>

\* configure_switch, lines 130-138: one probe forwarding entry
HulaConfigureProbeEntry ==
    /\ pc = "hcfg_probe"
    /\ IF gi > Len(ProbeEntries)
       THEN /\ HulaNext(sw + 1)
            /\ UNCHANGED <<gi, tables, log, fails>>
       ELSE LET e == ProbeEntries[gi] IN
            IF probe_entry_exc(e) # "none"
              \/ add_probe_forwarding_entry_exc(e.dst_tor_id, e.port, e.mac) # "none"
            THEN /\ pc' = "raised"
                 /\ UNCHANGED <<sw, gi, tables, log, fails>>
            ELSE \E ok \in RpcOutcomes :
                   LET c == add_probe_forwarding_entry(e.dst_tor_id, e.port, e.mac, ok) IN
                   /\ tables' = add_table_entry(tables, c, ok)
                   /\ log' = Append(log, c)
                   /\ fails' = RpcFails(ok)
                   /\ pc' = "hcfg_probe"
                   /\ gi' = gi + 1
                   /\ sw' = sw
    /\ UNCHANGED <<inputs, run, args, thr, ni, loaded, mgr, prev_log>>

\* main, lines 264-266: if probe_config and args.interface: start_probe_injection
HulaStartDecision ==
    /\ pc = "hula_start"
    /\ pc' = IF DOMAIN ProbeConfig # {} /\ args_iface THEN "start_1" ELSE "hula_monitor"
    /\ UNCHANGED <<inputs, run, args, thr, pos, loaded, mgr, tables, log, prev_log, fails>>

\* where start_probe_injection / stop_probe_injection return to
RetStart == IF kind = "api" THEN "api_idle" ELSE "hula_monitor"
RetStop == IF kind = "api" THEN "api_idle" ELSE "main_disc"

\* start_probe_injection, line 188: self.running = True
StartSetRunning ==
    /\ pc = "start_1"
    /\ running' = TRUE
    /\ stop_returned' = FALSE
    /\ pc' = "start_2"
    /\ UNCHANGED <<inputs, run, args, pos, loaded, mgr, tables, log, prev_log, fails,
                   mon, probe_thread, threads>>

\* pkt before the first create_hula_probe call
NoPacket == [src |-> <<>>, dst |-> <<>>, type |-> 0, load |-> <<>>]

NewThread == [pc |-> "check", i |-> 0, sent |-> FALSE, pkt |-> NoPacket]

\* start_probe_injection that starts no thread while an earlier one is alive
StartThread_OnlyIfIdle ==
    /\ pc = "start_2"
    /\ IF \E t \in 1..Len(threads) : threads[t].pc # "dead"
       THEN UNCHANGED <<threads, probe_thread>>
       ELSE threads' = Append(threads, NewThread) /\ probe_thread' = Len(threads) + 1
    /\ pc' = RetStart
    /\ UNCHANGED <<inputs, run, args, pos, loaded, mgr, tables, log, prev_log, fails,
                   mon, running, stop_returned>>

\* start_probe_injection, lines 189-194: a new Thread is stored and started
StartThread ==
    /\ pc = "start_2"
    /\ threads' = Append(threads, NewThread)
    /\ probe_thread' = Len(threads) + 1
    /\ pc' = RetStart
    /\ UNCHANGED <<inputs, run, args, pos, loaded, mgr, tables, log, prev_log, fails,
                   mon, running, stop_returned>>

\* stop_probe_injection, line 199: self.running = False
StopClearRunning ==
    /\ pc = "stop_1"
    /\ running' = FALSE
    /\ pc' = "stop_join"
    /\ UNCHANGED <<inputs, run, args, pos, loaded, mgr, tables, log, prev_log, fails,
                   mon, probe_thread, threads, stop_returned>>

\* stop_probe_injection returning without the join
StopJoin_NoJoin ==
    /\ pc = "stop_join"
    /\ stop_returned' = TRUE
    /\ pc' = RetStop
    /\ UNCHANGED <<inputs, run, args, pos, loaded, mgr, tables, log, prev_log, fails,
                   mon, running, probe_thread, threads>>

\* stop_probe_injection, lines 200-202: join self.probe_thread if there is one
StopJoin ==
    /\ pc = "stop_join"
    /\ IF probe_thread = 0 THEN TRUE ELSE threads[probe_thread].pc = "dead"
    /\ stop_returned' = TRUE
    /\ pc' = RetStop
    /\ UNCHANGED <<inputs, run, args, pos, loaded, mgr, tables, log, prev_log, fails,
                   mon, running, probe_thread, threads>>

\* a caller of the controller object calls start_probe_injection
ApiStart ==
    /\ pc = "api_idle"
    /\ Len(threads) < MaxThreads
    /\ pc' = "start_1"
    /\ UNCHANGED <<inputs, run, args, thr, pos, loaded, mgr, tables, log, prev_log, fails>>

\* a caller that has not started injection yet calls start_probe_injection
ApiStartOnce ==
    /\ threads = <<>>
    /\ ApiStart

\* start_probe_injection called a first and a second time on a controller
ApiStartTwice ==
    /\ Len(threads) < 2
    /\ ApiStart

\* a caller of the controller object calls stop_probe_injection
ApiStop ==
    /\ pc = "api_idle"
    /\ pc' = "stop_1"
    /\ UNCHANGED <<inputs, run, args, thr, pos, loaded, mgr, tables, log, prev_log, fails>>

(* ---------------------- a caller of SwitchManager --------------------- *)
\* manager.connect()
ApiConnect ==
    /\ pc = "api_idle"
    /\ Len(conns) < MaxConnects
    /\ \E ok \in ConnectOutcomes : connect(ok)
    /\ UNCHANGED <<inputs, run, args, thr, pos, pc, loaded, tables, log, prev_log>>

\* manager.disconnect()
ApiDisconnect ==
    /\ pc = "api_idle"
    /\ disconnect
    /\ UNCHANGED <<inputs, run, args, thr, pos, pc, loaded, client, transport,
                   tables, log, prev_log, fails>>

\* manager.write_register(register_name, index, value)
ApiWriteRegister ==
    /\ pc = "api_idle"
    /\ \E register_name \in RegNames : \E index \in 1..MaxIndex : \E value \in 0..MaxUtil :
       \E ok \in RpcOutcomes :
         /\ registers' = write_register(registers, register_name, index, value, ok)
         /\ fails' = RpcFails(ok)
    /\ UNCHANGED <<kind, readable, content, match_types, now, deadline, run, args, thr, pos, pc,
                   loaded, mgr, tables, log, prev_log>>

(* ------------- a caller of every SwitchManager operation -------------- *)
\* the entry and the register the caller works on
OpsTable == "ecmp_group"
OpsEntry == add_ecmp_group(<<10, 0, 1, 0>>, 24, 1, 2, TRUE)
OpsRegister == "path_util_reg"

\* a call of the manager and what it returned
Returned(op, name, ok, ret) ==
    [op |-> op, table |-> name, key |-> <<>>, action |-> "", params |-> <<>>,
     ok |-> ok, sw |-> sw, ret |-> ret]

\* a method that lets the exception of a failed remote call through
OpReturn_RaiseOnFailure(c) ==
    /\ log' = Append(log, c)
    /\ pc' = IF c.ok THEN "api_idle" ELSE "raised"
    /\ fails' = RpcFails(c.ok)

\* try: ... return value / except Exception: print, return the failure value
OpReturn(c) ==
    /\ log' = Append(log, c)
    /\ pc' = "api_idle"
    /\ fails' = RpcFails(c.ok)

CanCall == pc = "api_idle" /\ Len(log) < MaxCalls

\* SwitchManager.delete_table_entry: the entry the handle names is taken out
delete_table_entry(tbls, table_name, e, ok) ==
    IF ok THEN [tbls EXCEPT ![table_name] = @ \ {e}] ELSE tbls

\* the entries a handle can name; none when the table is empty
Handles(table_name) ==
    IF tables[table_name] = {} THEN {[key |-> <<>>, action |-> "", params |-> <<>>]}
    ELSE tables[table_name]

\* manager.add_table_entry(...)
OpsAdd ==
    /\ CanCall
    /\ \E ok \in RpcOutcomes :
         /\ tables' = add_table_entry(tables, OpsEntry, ok)
         /\ OpReturn(Returned("add", OpsTable, ok, ok))
    /\ UNCHANGED <<inputs, run, args, thr, pos, loaded, mgr, prev_log>>

\* manager.delete_table_entry(table_name, entry_handle)
OpsDelete ==
    /\ CanCall
    /\ \E e \in Handles(OpsTable) :
       \E ok \in (IF e \in tables[OpsTable] THEN RpcOutcomes ELSE {FALSE}) :
         /\ tables' = delete_table_entry(tables, OpsTable, e, ok)
         /\ OpReturn(Returned("delete", OpsTable, ok, ok))
    /\ UNCHANGED <<inputs, run, args, thr, pos, loaded, mgr, prev_log>>

\* manager.clear_table(table_name)
OpsClear ==
    /\ CanCall
    /\ \E ok \in RpcOutcomes :
         /\ tables' = clear_table(tables, OpsTable, ok)
         /\ OpReturn(Returned("clear", OpsTable, ok, ok))
    /\ UNCHANGED <<inputs, run, args, thr, pos, loaded, mgr, prev_log>>

\* manager.get_tables(): the switch's list, or []
OpsGetTables ==
    /\ CanCall
    /\ \E ok \in RpcOutcomes :
         OpReturn(Returned("get_tables", "", ok,
                           IF ok THEN <<"ecmp_group", "ecmp_nhop">> ELSE <<>>))
    /\ UNCHANGED <<inputs, run, args, thr, pos, loaded, mgr, tables, prev_log>>

\* manager.set_default_action(table_name, action_name, action_params)
OpsSetDefaultAction ==
    /\ CanCall
    /\ \E ok \in RpcOutcomes :
         OpReturn(Returned("set_default_action", OpsTable, ok, ok))
    /\ UNCHANGED <<inputs, run, args, thr, pos, loaded, mgr, tables, prev_log>>

\* manager.read_register(register_name, index)
OpsReadRegister ==
    /\ CanCall
    /\ \E ok \in RpcOutcomes :
         OpReturn(Returned("read_register", OpsRegister, ok,
                           read_register(OpsRegister, 1, ok)))
    /\ UNCHANGED <<inputs, run, args, thr, pos, loaded, mgr, tables, prev_log>>

\* manager.write_register(register_name, index, value)
OpsWriteRegister ==
    /\ CanCall
    /\ \E ok \in RpcOutcomes :
         /\ registers' = write_register(registers, OpsRegister, 1, 0, ok)
         /\ OpReturn(Returned("write_register", OpsRegister, ok, ok))
    /\ UNCHANGED <<kind, readable, content, match_types, now, deadline, run, args, thr, pos,
                   loaded, mgr, tables, prev_log>>

\* the remote side closes the connection the client is on
RemoteClose ==
    /\ pc = "api_idle"
    /\ Connected
    /\ conns' = [conns EXCEPT ![client] = "reset"]
    /\ UNCHANGED <<inputs, run, args, thr, pos, pc, loaded, client, transport,
                   tables, log, prev_log, fails>>

(* ------------------------ inject_probes (thread) ---------------------- *)
\* create_hula_probe: the exception raised while the packet is built, or "none"
create_hula_probe_exc(probe) ==
    IF "dst_tor_id" \notin DOMAIN probe \/ "src_mac" \notin DOMAIN probe
       \/ "dst_mac" \notin DOMAIN probe THEN "KeyError"
    ELSE IF ~FitsBytes(now, 4) \/ ~FitsBytes(probe.dst_tor_id, 4) THEN "OverflowError"
    ELSE "none"

\* the header with the destination ToR id ahead of the timestamp
create_hula_probe_TorFirst(dst_tor_id, src_mac, dst_mac) ==
    [src |-> src_mac, dst |-> dst_mac, type |-> 4660,
     load |-> <<1, 0, 0, 0>> \o int_to_bytes(dst_tor_id, 4) \o int_to_bytes(now, 4)]

\* create_hula_probe: Ether(src, dst, type=0x1234) / Raw(load=hula_header), the
\* header being type, hop_count, path_util (2), int(time.time()) (4), dst_tor_id (4)
create_hula_probe(dst_tor_id, src_mac, dst_mac) ==
    [src |-> src_mac, dst |-> dst_mac, type |-> 4660,
     load |-> <<1, 0, 0, 0>> \o int_to_bytes(now, 4) \o int_to_bytes(dst_tor_id, 4)]

\* inject_probes looping without the test of self.running
InjectCheck_NoTest ==
    \E t \in 1..Len(threads) :
      /\ threads[t].pc = "check"
      /\ threads' = [threads EXCEPT ![t] =
            IF Len(Probes) = 0 THEN [@ EXCEPT !.pc = "nap"]
            ELSE [@ EXCEPT !.pc = "create", !.i = 1]]
      /\ UNCHANGED <<asleep, now, deadline, run, args, pos, pc, loaded, mgr, tables, log, prev_log,
                     fails, mon, running, probe_thread, stop_returned>>

\* inject_probes, lines 175-176: the test of `while self.running`, and the for loop
\* taking its first descriptor; with no descriptor the next statement is the sleep
InjectCheck ==
    \E t \in 1..Len(threads) :
      /\ threads[t].pc = "check"
      /\ threads' = [threads EXCEPT ![t] =
            IF ~running THEN [@ EXCEPT !.pc = "dead"]
            ELSE IF Len(Probes) = 0 THEN [@ EXCEPT !.pc = "nap"]
            ELSE [@ EXCEPT !.pc = "create", !.i = 1]]
      /\ UNCHANGED <<asleep, now, deadline, run, args, pos, pc, loaded, mgr, tables, log, prev_log,
                     fails, mon, running, probe_thread, stop_returned>>

\* inject_probes, lines 177-181: pkt = self.create_hula_probe(...), which reads the
\* clock.  The call is not guarded: a descriptor it cannot use ends the thread before
\* pkt is assigned.
InjectCreate ==
    \E t \in 1..Len(threads) :
      /\ threads[t].pc = "create"
      /\ threads' = [threads EXCEPT ![t] =
            IF create_hula_probe_exc(Probes[threads[t].i]) # "none"
            THEN [@ EXCEPT !.pc = "dead"]
            ELSE [@ EXCEPT !.pkt = create_hula_probe(Probes[threads[t].i].dst_tor_id,
                                                     Probes[threads[t].i].src_mac,
                                                     Probes[threads[t].i].dst_mac),
                           !.pc = "send"]]
      /\ UNCHANGED <<asleep, now, deadline, run, args, pos, pc, loaded, mgr, tables, log, prev_log,
                     fails, mon, running, probe_thread, stop_returned>>

\* inject_probes handing the probe to the switch through the SwitchManager
InjectSend_ViaManager ==
    \E t \in 1..Len(threads) :
      /\ threads[t].pc = "send"
      /\ threads' = [threads EXCEPT ![t] =
            [@ EXCEPT !.sent = TRUE,
                      !.i = IF @ < Len(Probes) THEN @ + 1 ELSE 0,
                      !.pc = IF threads[t].i < Len(Probes) THEN "create" ELSE "nap"]]
      /\ \E ok \in RpcOutcomes : fails' = RpcFails(ok)
      /\ UNCHANGED <<asleep, now, deadline, run, args, pos, pc, loaded, mgr, tables, log, prev_log,
                     mon, running, probe_thread, stop_returned>>

\* inject_probes, line 182: sendp(pkt, ...) returns, however long it took, and the
\* for loop takes the next descriptor or ends.  The call is not guarded: an
\* exception of sendp (OSError: no such device) ends the thread with the packet
\* built and not sent.
InjectSend ==
    \E t \in 1..Len(threads) : \E sendp \in BOOLEAN :
      /\ threads[t].pc = "send"
      /\ threads' = [threads EXCEPT ![t] =
            IF ~sendp
            THEN [@ EXCEPT !.pc = "dead"]
            ELSE [@ EXCEPT !.sent = TRUE,
                           !.i = IF @ < Len(Probes) THEN @ + 1 ELSE 0,
                           !.pc = IF threads[t].i < Len(Probes) THEN "create" ELSE "nap"]]
      /\ UNCHANGED <<asleep, now, deadline, run, args, pos, pc, loaded, mgr, tables, log, prev_log,
                     fails, mon, running, probe_thread, stop_returned>>

\* inject_probes, line 184: time.sleep(self.probe_interval) is called; the sleep
\* lasts probe_interval from the clock of this call
InjectSleepCall ==
    \E t \in 1..Len(threads) :
      /\ threads[t].pc = "nap"
      /\ threads' = [threads EXCEPT ![t].pc = "sleep"]
      /\ deadline' = SleepCalled(t, ProbeInterval)
      /\ UNCHANGED <<asleep, now, run, args, pos, pc, loaded, mgr, tables, log, prev_log,
                     fails, mon, running, probe_thread, stop_returned>>

\* the seconds the monitoring rounds begun so far take
Monitored == MonitorPeriod * (polls + IF 0 \in DOMAIN deadline THEN 1 ELSE 0)

\* inject_probes, line 184: time.sleep(self.probe_interval) returns, probe_interval
\* seconds after the call or later; the clock is then at the end of the sleep at
\* least.  The ticks of a run are followed for MaxSleeps intervals, and for as long
\* as monitoring takes; a thread that is to stop is always followed to its exit.
InjectSleep ==
    \E t \in 1..Len(threads) :
      /\ threads[t].pc = "sleep"
      /\ \/ ~running
         \/ WakeTime(t) - (now - Elapsed) <= MaxSleeps * ProbeInterval + Monitored
      /\ threads' = [threads EXCEPT ![t].pc = "check"]
      /\ now' = WakeTime(t)
      /\ deadline' = SleepOver(t)
      /\ UNCHANGED <<asleep, run, args, pos, pc, loaded, mgr, tables, log, prev_log, fails,
                     mon, running, probe_thread, stop_returned>>

(* ---------------------- monitor_path_utilization ---------------------- *)
\* the reads of one round: for tor_id in range(1, 4): path_util_reg, best_port_reg
MonitorReads ==
    <<[reg |-> "path_util_reg", index |-> 1], [reg |-> "best_port_reg", index |-> 1],
      [reg |-> "path_util_reg", index |-> 2], [reg |-> "best_port_reg", index |-> 2],
      [reg |-> "path_util_reg", index |-> 3], [reg |-> "best_port_reg", index |-> 3]>>

\* main, lines 269-271: if args.monitor > 0: monitor_path_utilization
HulaMonitorDecision ==
    /\ pc = "hula_monitor"
    /\ IF args_monitor > 0
       THEN pc' = "mon_read" /\ mi' = 1 /\ polls' = 0 /\ start_time' = now
       ELSE pc' = "stop_1" /\ mi' = mi /\ polls' = polls /\ start_time' = start_time
    /\ UNCHANGED <<inputs, run, args, pos, loaded, mgr, tables, log, prev_log, fails,
                   last_read, running, probe_thread, threads, stop_returned>>

\* the flowlet entry for ToR tor_id, as add_flowlet_entry would ask for it on `port`
FlowletUpdate(tor_id, port) ==
    add_flowlet_entry(FlowletOf(1, tor_id).dst_prefix[1], FlowletOf(1, tor_id).dst_prefix[2][1],
                      port, MacOf(port), TRUE)

\* the reading names a port other than the one the installed entry for the ToR uses
NamesOtherPort(tor_id, port) ==
    /\ port >= 0
    /\ \E e \in tables["flowlet_table"] :
         e.key = FlowletUpdate(tor_id, port).key /\ e.params # FlowletUpdate(tor_id, port).params

\* a monitor that moves the entry when the utilization read is not above the installed one
ReportReading_SwitchOnEqual(tor_id, util, port) ==
    IF NamesOtherPort(tor_id, port) /\ util >= 0 /\ util <= MaxUtil /\ Connected
    THEN /\ tables' = add_table_entry(tables, FlowletUpdate(tor_id, port), TRUE)
         /\ log' = Append(log, FlowletUpdate(tor_id, port))
    ELSE UNCHANGED <<tables, log>>

\* a monitor that moves the entry on a lower utilization without looking at its age
ReportReading_SwitchOnStale(tor_id, util, port) ==
    IF NamesOtherPort(tor_id, port) /\ util >= 0 /\ util < MaxUtil /\ Connected
    THEN /\ tables' = add_table_entry(tables, FlowletUpdate(tor_id, port), TRUE)
         /\ log' = Append(log, FlowletUpdate(tor_id, port))
    ELSE UNCHANGED <<tables, log>>

\* monitor_path_utilization, line 219: util and port are printed, and nothing else is
\* done with them
ReportReading(tor_id, util, port) == UNCHANGED <<tables, log>>

\* a monitor whose polling ends at the first read that fails
MonitorRead_StopOnFailure ==
    /\ pc = "mon_read"
    /\ \E ok \in RpcOutcomes :
         /\ LET r == MonitorReads[mi]
                v == read_register(r.reg, r.index, ok) IN
            IF r.reg = "path_util_reg"
            THEN last_read' = [tor_id |-> r.index, util |-> v, port |-> last_read.port]
            ELSE last_read' = [last_read EXCEPT !.port = v]
         /\ fails' = RpcFails(ok)
         /\ IF ~ok THEN pc' = "stop_1" /\ mi' = 0
            ELSE IF mi < Len(MonitorReads) THEN pc' = "mon_read" /\ mi' = mi + 1
            ELSE pc' = "mon_nap" /\ mi' = 0
    /\ UNCHANGED <<asleep, now, deadline, run, args, pos, loaded, mgr, tables, log, prev_log,
                   polls, start_time, running, probe_thread, threads, stop_returned>>

\* monitor_path_utilization, lines 217-219: one read_register call; after the second
\* one of a ToR the two values are printed; after the last one of the round the next
\* statement is the sleep
MonitorRead ==
    /\ pc = "mon_read"
    /\ \E ok \in RpcOutcomes :
         /\ LET r == MonitorReads[mi]
                v == read_register(r.reg, r.index, ok) IN
            IF r.reg = "path_util_reg"
            THEN /\ last_read' = [tor_id |-> r.index, util |-> v, port |-> last_read.port]
                 /\ UNCHANGED <<tables, log>>
            ELSE /\ last_read' = [last_read EXCEPT !.port = v]
                 /\ ReportReading(r.index, last_read.util, v)
         /\ fails' = RpcFails(ok)
    /\ IF mi < Len(MonitorReads) THEN pc' = "mon_read" /\ mi' = mi + 1
       ELSE pc' = "mon_nap" /\ mi' = 0
    /\ UNCHANGED <<asleep, now, deadline, run, args, pos, loaded, mgr, prev_log,
                   polls, start_time, running, probe_thread, threads, stop_returned>>

\* monitor_path_utilization, line 221: time.sleep(5) is called; the sleep lasts five
\* seconds from the clock of this call
MonitorSleepCall ==
    /\ pc = "mon_nap"
    /\ pc' = "mon_sleep"
    /\ deadline' = SleepCalled(0, MonitorPeriod)
    /\ UNCHANGED <<asleep, now, run, args, pos, loaded, mgr, tables, log, prev_log, fails,
                   mi, polls, last_read, start_time, running, probe_thread, threads, stop_returned>>

\* the outcomes of time.time() - start_time < duration when the two times are in
\* the whole seconds `from` and `to`: the test is on the float times, each up to a
\* second past its whole second, so a difference of exactly `duration` whole seconds
\* is below the duration or not
DurationTest(from, to, duration) ==
    IF to - from < duration THEN {TRUE}
    ELSE IF to - from > duration THEN {FALSE}
    ELSE BOOLEAN

\* monitor_path_utilization, lines 221, 214: time.sleep(5) returns, five seconds
\* after the call or later, then the test time.time() - start_time < duration
MonitorSleep ==
    /\ pc = "mon_sleep"
    /\ polls' = polls + 1
    /\ now' = WakeTime(0)
    /\ deadline' = SleepOver(0)
    /\ \E again \in DurationTest(start_time, now', args_monitor) :
         IF again THEN pc' = "mon_read" /\ mi' = 1
         ELSE pc' = "stop_1" /\ mi' = 0
    /\ UNCHANGED <<asleep, run, args, pos, loaded, mgr, tables, log, prev_log, fails,
                   last_read, start_time, running, probe_thread, threads, stop_returned>>

\* main, lines 272-273: KeyboardInterrupt during monitoring, in a read, ahead of
\* the sleep or at any moment of it
MonitorInterrupt ==
    /\ pc \in {"mon_read", "mon_nap", "mon_sleep"}
    /\ pc' = "stop_1"
    /\ mi' = 0
    /\ deadline' = SleepOver(0)
    /\ UNCHANGED <<asleep, now, run, args, pos, loaded, mgr, tables, log, prev_log, fails,
                   polls, last_read, start_time, running, probe_thread, threads, stop_returned>>

(* ----------------------------- data plane ----------------------------- *)
\* the ToRs whose best path changes during the run: those the input has a flowlet
\* entry for (the entry for ToR d goes out of port d)
ActiveToRs ==
    {d \in ToRs : \E s \in 1..Len(Switches) :
        \E j \in 1..Len(Get(Switches[s], "flowlet_entries", <<>>)) :
            Switches[s].flowlet_entries[j].port = d}

\* a probe comes back to the switch for ToR d over the other uplink, on an idle path
\* (u = 0) or on one as loaded as the current one: the data plane writes the three
\* registers of d
DataplaneUpdate ==
    /\ Elapsed - MonitorPeriod * polls < MaxTicks
    /\ \E d \in ActiveToRs : \E u \in {0, MaxUtil} :
         registers' = [registers EXCEPT !["path_util_reg"][d] = u,
                                        !["best_port_reg"][d] = OtherPort(d),
                                        !["path_time_reg"][d] = now + 1]
    /\ now' = now + 1
    /\ UNCHANGED <<kind, readable, content, match_types, deadline, run, args, pc, pos, loaded, mgr,
                   tables, log, prev_log, fails, thr>>

\* a second passes and no statement ends (in the data plane: no probe comes back),
\* at any point of a run: between two statements of main, between two steps of an
\* injector, while threads sleep.  The seconds followed are MaxTicks beyond the
\* monitoring rounds done.
Tick ==
    /\ Elapsed - MonitorPeriod * polls < MaxTicks
    /\ now' = now + 1
    /\ UNCHANGED <<kind, readable, content, match_types, deadline, run, args, pc, pos, loaded, mgr,
                   tables, log, prev_log, fails, thr, registers>>

Next ==
    \/ MainConnect
    \/ MainNoClear
    \/ ClearAllTables
    \/ LoadTopology
    \/ PopulateFromTopology
    \/ PopConnect
    \/ ConfigureEnter
    \/ ConfigureGroup
    \/ ConfigureNextHop
    \/ PopDisconnect
    \/ HulaSwitches
    \/ HulaConfigureEnter
    \/ HulaConfigureFlowlet
    \/ HulaConfigureProbeEntry
    \/ HulaStartDecision
    \/ StartSetRunning
    \/ StartThread
    \/ InjectCheck
    \/ InjectCreate
    \/ InjectSend
    \/ InjectSleepCall
    \/ InjectSleep
    \/ HulaMonitorDecision
    \/ MonitorRead
    \/ MonitorSleepCall
    \/ MonitorSleep
    \/ MonitorInterrupt
    \/ StopClearRunning
    \/ StopJoin
    \/ MainDisconnect
    \/ SecondRun
    \/ Tick

NextApi ==
    \/ ApiStart
    \/ ApiStop
    \/ StartSetRunning
    \/ StartThread
    \/ StopClearRunning
    \/ StopJoin
    \/ InjectCheck
    \/ InjectCreate
    \/ InjectSend
    \/ InjectSleepCall
    \/ InjectSleep
    \/ Tick

\* a double start: start_probe_injection twice and stop_probe_injection any number
\* of times, in any order, while the threads run and time passes
NextDoubleStart ==
    \/ ApiStartTwice
    \/ ApiStop
    \/ StartSetRunning
    \/ StartThread
    \/ StopClearRunning
    \/ StopJoin
    \/ InjectCheck
    \/ InjectCreate
    \/ InjectSend
    \/ InjectSleepCall
    \/ InjectSleep
    \/ Tick

\* one start_probe_injection and any number of stop_probe_injection, while time
\* passes
NextClock ==
    \/ ApiStartOnce
    \/ ApiStop
    \/ StartSetRunning
    \/ StartThread
    \/ StopClearRunning
    \/ StopJoin
    \/ InjectCheck
    \/ InjectCreate
    \/ InjectSend
    \/ InjectSleepCall
    \/ InjectSleep
    \/ Tick

\* hula_controller.main run without an interface to probe on, while the data plane
\* goes on writing its registers
NextMon ==
    \/ MainConnect
    \/ MainNoClear
    \/ ClearAllTables
    \/ LoadTopology
    \/ HulaSwitches
    \/ HulaConfigureEnter
    \/ HulaConfigureFlowlet
    \/ HulaConfigureProbeEntry
    \/ HulaStartDecision
    \/ HulaMonitorDecision
    \/ MonitorRead
    \/ MonitorSleepCall
    \/ MonitorSleep
    \/ MonitorInterrupt
    \/ StopClearRunning
    \/ StopJoin
    \/ MainDisconnect
    \/ DataplaneUpdate
    \/ Tick

\* the two programs: ecmp_controller.py (run twice on one topology file, against
\* one switch) and hula_controller.py (run once)
Spec == Init /\ [][Next]_vars

SpecMon == InitMon /\ [][NextMon]_vars

\* SwitchManager.connect / write_register / disconnect called in any order
NextReg ==
    \/ ApiConnect
    \/ ApiWriteRegister
    \/ ApiDisconnect

SpecReg == InitReg /\ [][NextReg]_vars

\* every operation of a SwitchManager called in any order, in every connection state
NextOps ==
    \/ ApiConnect
    \/ ApiDisconnect
    \/ RemoteClose
    \/ OpsAdd
    \/ OpsDelete
    \/ OpsClear
    \/ OpsGetTables
    \/ OpsSetDefaultAction
    \/ OpsReadRegister
    \/ OpsWriteRegister

SpecOps == InitReg /\ [][NextOps]_vars

\* HULAController.start_probe_injection / stop_probe_injection called in any order
SpecApi == InitApi /\ [][NextApi]_vars

\* two injectors on one controller
SpecDoubleStart == InitApi /\ [][NextDoubleStart]_vars

\* one injector, started at a sample time
SpecClock == InitClock /\ [][NextClock]_vars

(* ====================================================================== *)
(*                               Claims                                   *)
(* ====================================================================== *)

IsAdd(c) == c.op = "add"
IsDelete(c) == c.op = "delete"
IsClear(c) == c.op = "clear"

\* what a call asks of the switch, whatever came of it
Asked(c) == [table |-> c.table, key |-> c.key, action |-> c.action, params |-> c.params]

\* the add calls of log l made while switch s was being configured
AddsOf(l, s) == SelectSeq(l, LAMBDA c : IsAdd(c) /\ c.sw = s)

AskedOf(l, s) == [i \in 1..Len(AddsOf(l, s)) |-> Asked(AddsOf(l, s)[i])]

IsPrefix(a, b) == Len(a) <= Len(b) /\ \A i \in 1..Len(a) : a[i] = b[i]

RECURSIVE SumLen(_, _)
SumLen(groups, j) ==
    IF j = 0 THEN 0 ELSE 1 + Len(groups[j].next_hops) + SumLen(groups, j - 1)

\* the number of entries the input describes for switch s
EntryCount(s) ==
    IF kind = "ecmp"
    THEN SumLen(Get(Switches[s], "ecmp_groups", <<>>),
                Len(Get(Switches[s], "ecmp_groups", <<>>)))
    ELSE Len(Get(Switches[s], "flowlet_entries", <<>>))
         + Len(Get(Switches[s], "probe_entries", <<>>))

\* configure_switch has returned for switch s in this run
Configured(s) ==
    /\ s \in 1..Len(Switches)
    /\ \/ pc \in {"done", "main_disc", "hula_start", "start_1", "start_2", "hula_monitor",
                  "mon_read", "mon_nap", "mon_sleep", "stop_1", "stop_join"}
       \/ sw > s
       \/ sw = s /\ pc = "pop_disc"
    /\ loaded
    /\ kind = "ecmp" => Len(conns) > s /\ conns[1 + s] # "unopened"

Installed(c) == \E e \in tables[c.table] : e.key = c.key

Decode2(b) == b[1] * 256 + b[2]

\* a step in which injector thread t puts a probe packet on the wire
SendStep(t) ==
    /\ t \in 1..Len(threads)
    /\ threads[t].pc = "send"
    /\ threads'[t].pc \in {"create", "nap"}

\* C1: once stop_probe_injection has returned, the injector thread it stopped
\* sends no further probe packet, however its steps interleave with the caller's.
C1_NoSendAfterStopReturned ==
    [][stop_returned /\ stop_returned' => \A t \in 1..Len(threads) : ~SendStep(t)]_vars

\* stop has returned on an injector that had been sending
C1_Witness ==
    /\ stop_returned
    /\ Len(threads) = 1
    /\ threads[1].sent
    /\ threads[1].pc = "dead"

\* the first run pushed every entry of the input, and every add returned
FirstRunApplied ==
    /\ run = 2
    /\ \E s \in 1..Len(Switches) : EntryCount(s) > 0
    /\ \A s \in 1..Len(Switches) :
         /\ Len(AddsOf(prev_log, s)) = EntryCount(s)
         /\ \A i \in 1..Len(AddsOf(prev_log, s)) : AddsOf(prev_log, s)[i].ok

\* C2: when the same desired state is pushed a second time, with nothing changed
\* in between, the second run issues no add and no delete.
C2_SecondRunIssuesNothing ==
    (FirstRunApplied /\ ~args_clear) =>
        \A i \in 1..Len(log) : ~IsAdd(log[i]) /\ ~IsDelete(log[i])

\* C3: in populate_from_topology every switch of the topology gets its connect
\* attempt, and every switch whose connect succeeded has all its entries issued,
\* the ones whose add returned being installed, whichever other connects failed.
C3_ConnectFailureIsolated ==
    (kind = "ecmp" /\ pc = "done" /\ loaded) =>
        /\ Len(conns) = 1 + Len(Switches)
        /\ \A s \in 1..Len(Switches) :
             conns[1 + s] # "unopened" =>
                /\ Len(AddsOf(log, s)) = EntryCount(s)
                /\ \A i \in 1..Len(AddsOf(log, s)) :
                     AddsOf(log, s)[i].ok => Installed(AddsOf(log, s)[i])

\* switch b could not be connected, and the later switch a has its entries installed
C3_Witness ==
    /\ kind = "ecmp" /\ pc = "done" /\ loaded
    /\ \E a, b \in 1..Len(Switches) :
         /\ b < a
         /\ Len(conns) = 1 + Len(Switches)
         /\ conns[1 + b] = "unopened"
         /\ conns[1 + a] = "closed"
         /\ EntryCount(a) > 1
         /\ Len(AddsOf(log, a)) = EntryCount(a)
         /\ \A i \in 1..Len(AddsOf(log, a)) :
              AddsOf(log, a)[i].ok /\ Installed(AddsOf(log, a)[i])

\* the destination prefixes the switch routes
RoutedPrefixes == {e.key : e \in tables["ecmp_group"] \cup tables["flowlet_table"]}

\* the main thread is inside one switch's configuration pass
InPass == pc \in {"cfg_enter", "cfg_group", "cfg_nhop", "pop_disc",
                  "hcfg_enter", "hcfg_flowlet", "hcfg_probe"}

\* C4: within a switch's pass no delete is issued before an add, and no prefix
\* that is routed stops being routed at any step of the pass.
C4_AddsBeforeDeletesNoUnrouting ==
    /\ [](\A i, j \in 1..Len(log) :
            (i < j /\ log[i].sw > 0 /\ log[i].sw = log[j].sw /\ IsDelete(log[i]))
                => ~IsAdd(log[j]))
    /\ [][InPass => RoutedPrefixes \subseteq RoutedPrefixes']_vars

\* in the second run, the add for a prefix installed by the first run has failed,
\* and the prefix is still routed
C4_Witness ==
    /\ run = 2 /\ InPass
    /\ \E i \in 1..Len(log) : \E j \in 1..Len(prev_log) :
         /\ IsAdd(log[i]) /\ log[i].table = "ecmp_group" /\ ~log[i].ok
         /\ IsAdd(prev_log[j]) /\ prev_log[j].key = log[i].key /\ prev_log[j].ok
         /\ log[i].key \in RoutedPrefixes

\* C5: once a switch's pass is over, every add that failed was either tried
\* again or is on record as divergent.
C5_FailedAddRetriedOrDivergent ==
    \A s \in 1..Len(Switches) :
        Configured(s) =>
            \A i \in 1..Len(AddsOf(log, s)) :
                ~AddsOf(log, s)[i].ok =>
                    \/ \E j \in (i + 1)..Len(AddsOf(log, s)) :
                         Asked(AddsOf(log, s)[j]) = Asked(AddsOf(log, s)[i])
                    \/ Asked(AddsOf(log, s)[i]) \in divergent

\* a step in which an add_table_entry call returns False
FailedAddStep ==
    /\ Len(log') = Len(log) + 1
    /\ IsAdd(log'[Len(log')])
    /\ ~log'[Len(log')].ok

\* C6: a failed add changes no table and leaves the pass inside the switch's
\* entry loops, and a pass that has returned has issued an add for every entry
\* of the switch.
C6_FailedAddNoAbortNoRollback ==
    /\ [](\A s \in 1..Len(Switches) :
            Configured(s) => Len(AddsOf(log, s)) = EntryCount(s))
    /\ [][FailedAddStep =>
            /\ tables' = tables
            /\ pc' \in {"cfg_nhop", "hcfg_flowlet", "hcfg_probe"}]_vars

\* a pass has returned in which an add failed after one had been installed and
\* before the last one, and the installed entry is still there
C6_Witness ==
    \E s \in 1..Len(Switches) :
        /\ Configured(s)
        /\ \E i, j \in 1..Len(AddsOf(log, s)) :
             /\ i < j /\ j < Len(AddsOf(log, s))
             /\ AddsOf(log, s)[i].ok /\ Installed(AddsOf(log, s)[i])
             /\ ~AddsOf(log, s)[j].ok
             /\ AddsOf(log, s)[Len(AddsOf(log, s))].ok

\* C7: a clear_table call is made only when the clear flag is set, and then only
\* by main before any switch is configured: never from a configuration pass.
C7_ClearOnlyOnRequest ==
    \A i \in 1..Len(log) :
        IsClear(log[i]) => args_clear /\ log[i].sw = 0 /\ i <= 2

\* a run with the flag set: the two clears, then the adds of the pass
C7_Witness ==
    /\ args_clear /\ pc = "done"
    /\ Len(log) >= 4
    /\ IsClear(log[1]) /\ IsClear(log[2])
    /\ \A i \in 3..Len(log) : IsAdd(log[i])

\* C8: the entries the second run asks for a switch are those the first run asked
\* for it, in the same order, whatever the calls returned in either run.
C8_SameTopologySameEntries ==
    (kind = "ecmp" /\ run = 2) =>
        \A s \in 1..Len(Switches) :
            \/ AskedOf(prev_log, s) = <<>>
            \/ /\ IsPrefix(AskedOf(log, s), AskedOf(prev_log, s))
               /\ Configured(s) /\ AskedOf(log, s) # <<>>
                    => AskedOf(log, s) = AskedOf(prev_log, s)

\* both runs configured a switch with a group and two next-hops, with calls that
\* returned differently
C8_Witness ==
    /\ kind = "ecmp" /\ run = 2 /\ pc = "done"
    /\ \E s \in 1..Len(Switches) :
         /\ Len(AskedOf(log, s)) >= 3
         /\ AskedOf(log, s) = AskedOf(prev_log, s)
         /\ \E i \in 1..Len(AddsOf(log, s)) :
              AddsOf(log, s)[i].ok # AddsOf(prev_log, s)[i].ok

\* the next-hop adds of log l for group g of switch s
NhopAdds(l, s, g) ==
    SelectSeq(l, LAMBDA c : IsAdd(c) /\ c.sw = s /\ c.table = "ecmp_nhop"
                            /\ Decode2(c.key[1]) = g.group_id)

GroupAdds(l, s, g) ==
    SelectSeq(l, LAMBDA c : IsAdd(c) /\ c.sw = s /\ c.table = "ecmp_group"
                            /\ c.key = <<g.dst_prefix[1], g.dst_prefix[2]>>)

\* C9: the next-hop adds of a group carry the buckets 0, 1, 2, ... in input
\* order, the i-th with the port and MAC of the i-th next-hop; the group add
\* carries num_paths = n; and once the pass has returned the buckets are 0..n-1.
C9_BucketsDenseInInputOrder ==
    kind = "ecmp" =>
    \A s \in 1..Len(Switches) :
      \A j \in 1..Len(Get(Switches[s], "ecmp_groups", <<>>)) :
        LET g == Switches[s].ecmp_groups[j]
            N == NhopAdds(log, s, g)
            G == GroupAdds(log, s, g)
        IN  /\ Len(G) <= 1
            /\ \A i \in 1..Len(G) : Decode2(G[i].params[2]) = Len(g.next_hops)
            /\ Len(N) <= Len(g.next_hops)
            /\ \A i \in 1..Len(N) :
                 /\ Decode2(N[i].key[2]) = i - 1
                 /\ Decode2(N[i].params[2]) = g.next_hops[i].port
                 /\ N[i].params[1] = mac_to_bytes(g.next_hops[i].mac)
            /\ Configured(s) => Len(G) = 1 /\ Len(N) = Len(g.next_hops)

\* a pass has returned for a group with two next-hops
C9_Witness ==
    /\ kind = "ecmp"
    /\ \E s \in 1..Len(Switches) :
         /\ Configured(s)
         /\ Len(Get(Switches[s], "ecmp_groups", <<>>)) >= 1
         /\ Len(NhopAdds(log, s, Switches[s].ecmp_groups[1])) = 2

\* the input of the scenario: one switch, one group 10.0.1.0/24, next-hops on ports 1..k
OneGroup(k) == TopologyOf(1, 1, k)

\* C10: a first run on one switch with one group of k next-hops, connected, ends
\* having issued one add on the group table and k on the next-hop table, and no
\* delete; with k = 2, bucket 0 goes to port 1 and bucket 1 to port 2.
C10_FirstRunIssuesGroupAndNextHops ==
    \A k \in 0..MaxNextHops :
      (/\ kind = "ecmp" /\ run = 1 /\ loaded /\ content = OneGroup(k)
       /\ pc \in {"done", "raised"}
       /\ Len(conns) = 2 /\ conns[2] # "unopened") =>
          /\ Len(SelectSeq(log, LAMBDA c : IsAdd(c) /\ c.table = "ecmp_group")) = 1
          /\ Len(SelectSeq(log, LAMBDA c : IsAdd(c) /\ c.table = "ecmp_nhop")) = k
          /\ \A i \in 1..Len(log) : ~IsDelete(log[i])
          /\ k = 2 =>
               LET N == SelectSeq(log, LAMBDA c : IsAdd(c) /\ c.table = "ecmp_nhop") IN
               /\ Decode2(N[1].key[2]) = 0 /\ Decode2(N[1].params[2]) = 1
               /\ Decode2(N[2].key[2]) = 1 /\ Decode2(N[2].params[2]) = 2

\* the key under which the flowlet entry for the destination behind ToR d is installed
FlowletKey(d) == <<int_to_bytes(ip_to_int(FlowletOf(1, d).dst_prefix[1]), 4), <<24>>>>

\* the egress port a flowlet entry sends to
PortOf(e) == Decode2(e.params[2])

\* the monitor's reading for ToR d names the other port, at a utilization strictly
\* below the one the path had when the entry was installed
BetterReading(d) ==
    /\ last_read.tor_id = d
    /\ last_read.util >= 0 /\ last_read.util < MaxUtil
    /\ last_read.port = OtherPort(d)

\* C11: when a flowlet entry exists and the monitor has read, for its destination,
\* a different port with strictly lower utilization, then once monitoring has run its
\* full time, with time elapsed since the registers were written, the entry has been
\* moved to that port.
C11_SwitchAfterTimeout ==
    \A d \in ToRs : \A e \in tables["flowlet_table"] :
        (/\ pc = "done" /\ args_monitor >= 1 /\ now - start_time >= args_monitor
         /\ e.key = FlowletKey(d)
         /\ BetterReading(d)
         /\ now > registers["path_time_reg"][d])
            => PortOf(e) = last_read.port

\* the reading just completed for ToR d: utilization equal to the installed path's
EqualReading(d) ==
    /\ last_read.tor_id = d
    /\ last_read.util = MaxUtil

\* C12: a reading whose utilization equals that of the installed path changes no
\* flowlet entry and issues no table call, whatever port it names and however fresh
\* it is; the entry keeps the port it was configured with.
C12_EqualUtilizationNoSwitch ==
    /\ [][(pc = "mon_read" /\ pc' \in {"mon_read", "mon_nap", "mon_sleep"}
           /\ last_read'.util = MaxUtil)
            => tables' = tables /\ log' = log]_vars
    /\ [](\A d \in ToRs : \A e \in tables["flowlet_table"] :
            (e.key = FlowletKey(d) /\ EqualReading(d)) => PortOf(e) = FlowletOf(1, d).port)

\* the monitor has read, for a ToR with an installed entry, the installed path's
\* utilization on another port, written in this very tick, and the entry is unchanged
C12_Witness ==
    \E d \in ToRs : \E e \in tables["flowlet_table"] :
        /\ pc \in {"mon_read", "mon_nap", "mon_sleep"}
        /\ e.key = FlowletKey(d)
        /\ EqualReading(d)
        /\ last_read.port = OtherPort(d)
        /\ PortOf(e) = FlowletOf(1, d).port /\ PortOf(e) # last_read.port
        /\ registers["path_time_reg"][d] = now /\ now > 0

\* the registers of ToR d were last written more than the staleness window ago
Stale(d) == now - registers["path_time_reg"][d] > StaleWindow

\* C13: polling a reading older than the staleness window leaves the flowlet table
\* as it was before the poll, and issues no table call.
C13_StaleReadingNotUsed ==
    [][(pc = "mon_read" /\ mi' # mi /\ Stale(MonitorReads[mi].index))
        => tables'["flowlet_table"] = tables["flowlet_table"] /\ log' = log]_vars

\* the monitor holds, for a ToR with an installed entry, a stale reading that names
\* another port at a lower utilization, and the entry is the configured one
C13_Witness ==
    \E d \in ToRs : \E e \in tables["flowlet_table"] :
        /\ pc \in {"mon_read", "mon_nap", "mon_sleep"}
        /\ e.key = FlowletKey(d)
        /\ BetterReading(d)
        /\ last_read.util = registers["path_util_reg"][d]
        /\ last_read.port = registers["best_port_reg"][d]
        /\ Stale(d)
        /\ PortOf(e) = FlowletOf(1, d).port

\* C14: for every destination ToR, the time held in its register entry never
\* decreases: no write with an older time than the stored one is accepted.
C14_TimestampNeverDecreases ==
    [][\A d \in ToRs : registers'["path_time_reg"][d] >= registers["path_time_reg"][d]]_vars

\* the topology lacks a field configure_switch reads
ConfigError(t) ==
    \E s \in 1..Len(Get(t, "switches", <<>>)) :
        \/ "switch_id" \notin DOMAIN t.switches[s]
        \/ \E j \in 1..Len(Get(t.switches[s], "ecmp_groups", <<>>)) :
             \/ group_exc(t.switches[s].ecmp_groups[j]) # "none"
             \/ \E i \in 1..Len(t.switches[s].ecmp_groups[j].next_hops) :
                  nhop_exc(t.switches[s].ecmp_groups[j].next_hops[i]) # "none"

\* C15: when the topology file is unreadable or malformed, no add and no delete is
\* issued to any switch, and no clear unless --clear asked for one.
C15_MalformedRejectedAtLoad ==
    (kind = "ecmp" /\ (~readable \/ ConfigError(content))) =>
        \A i \in 1..Len(log) :
            /\ ~IsAdd(log[i]) /\ ~IsDelete(log[i])
            /\ IsClear(log[i]) => args_clear

\* the packet inject_probes builds from probe descriptor number i
PacketOf(i) == create_hula_probe(Probes[i].dst_tor_id, Probes[i].src_mac, Probes[i].dst_mac)

\* the injector after its step, as a task whose every tick goes over the whole of
\* probe_config: from the loop test to descriptor 1 (or out of the loop when a stop
\* was requested), for descriptor i one packet built and then sent, from there to
\* descriptor i + 1, after the last descriptor the call of the sleep, which lasts
\* probe_interval seconds from that call, and from the sleep back to the loop test
\* when it is over, not sooner
TickStep(t) ==
    LET th == threads[t]
        nx == threads'[t] IN
    CASE th.pc = "check" ->
           IF ~running THEN nx.pc = "dead"
           ELSE IF Len(Probes) = 0 THEN nx.pc = "nap" /\ nx.pkt = th.pkt
           ELSE nx.pc = "create" /\ nx.i = 1 /\ nx.pkt = th.pkt
      [] th.pc = "create" ->
           /\ create_hula_probe_exc(Probes[th.i]) = "none"
           /\ nx.pkt = PacketOf(th.i)
           /\ nx.pc = "send" /\ nx.i = th.i
      [] th.pc = "send" ->
           /\ nx.sent
           /\ nx.pkt = th.pkt
           /\ IF th.i < Len(Probes) THEN nx.pc = "create" /\ nx.i = th.i + 1
              ELSE nx.pc = "nap"
      [] th.pc = "nap" ->
           /\ nx.pc = "sleep" /\ nx.pkt = th.pkt
           /\ deadline'[t] = now' + ProbeInterval
      [] th.pc = "sleep" ->
           /\ now' >= deadline[t]
           /\ nx.pc = "check" /\ nx.pkt = th.pkt
      [] OTHER -> FALSE

\* C16: a run of the controller has at most one injector thread, and every step of
\* it is the next statement of a complete tick: every tick that is begun goes over
\* all the descriptors of probe_config in order and sends exactly one packet for
\* each, then sleeps, and the next tick begins probe_interval seconds after the
\* sleep was called, not sooner.
C16_OnePacketPerDescriptorPerTick ==
    /\ [](Len(threads) <= 1)
    /\ [][\A t \in 1..Len(threads) : threads'[t] # threads[t] => TickStep(t)]_vars

\* C17: an injector thread has ended only after a stop was requested
\* (stop_probe_injection has set running to False); while running is True every
\* thread started is still in its loop.
C17_InjectionStopsOnlyOnRequest ==
    \A t \in 1..Len(threads) : threads[t].pc = "dead" => ~running

\* the unsigned integer a big-endian field of four bytes holds
FromBytes(b) == ((b[1] * 256 + b[2]) * 256 + b[3]) * 256 + b[4]

\* the 12-byte load of a probe: type 1, hop count 0, path utilization 0, then the
\* time `ts` and the ToR id `tor`, four bytes each, big-endian
ProbeLoad(h, ts, tor) ==
    /\ Len(h) = 12
    /\ \A k \in 1..12 : h[k] \in 0..255
    /\ h[1] = 1
    /\ h[2] = 0
    /\ h[3] = 0 /\ h[4] = 0
    /\ FromBytes(SubSeq(h, 5, 8)) = ts
    /\ FromBytes(SubSeq(h, 9, 12)) = tor

\* C18: the packet an injector builds is Ether(type 0x1234, the descriptor's src and
\* dst) with a 12-byte load: byte 1 the type 1, byte 2 the hop count 0, bytes 3-4
\* the path utilization 0, bytes 5-8 the time of the build in seconds, big-endian,
\* bytes 9-12 the descriptor's dst_tor_id, big-endian; and in every later state the
\* packet a thread holds is still such a probe, of one of the descriptors and of a
\* time of the run: the controller rewrites no field, a packet changes only by the
\* next one being built.
C18_ProbeHeaderLayout ==
    /\ [][\A t \in 1..Len(threads) :
            threads'[t].pkt # threads[t].pkt =>
              /\ threads[t].pc = "create"
              /\ LET p == threads'[t].pkt
                     d == Probes[threads[t].i] IN
                 /\ ProbeLoad(p.load, now, d.dst_tor_id)
                 /\ p.type = 4660
                 /\ p.src = d.src_mac
                 /\ p.dst = d.dst_mac]_vars
    /\ [](\A t \in 1..Len(threads) :
            LET p == threads[t].pkt IN
            p # NoPacket =>
              /\ p.type = 4660
              /\ \E i \in 1..Len(Probes) : \E ts \in (now - Elapsed)..now :
                    /\ ProbeLoad(p.load, ts, Probes[i].dst_tor_id)
                    /\ p.src = Probes[i].src_mac
                    /\ p.dst = Probes[i].dst_mac)

\* a probe for ToR 66051 built at time 1730000000 and sent: all eight bytes of the
\* two four-byte fields are told apart
C18_Witness ==
    /\ now = 1730000000
    /\ \E t \in 1..Len(threads) :
         /\ threads[t].sent
         /\ threads[t].pkt.load = <<1, 0, 0, 0, 103, 29, 180, 128, 0, 1, 2, 3>>

\* what a request on the SwitchManager connection can change
ManagerState == <<client, transport, conns, tables, log, fails, last_read>>

\* C19: every step that issues a request on the SwitchManager connection (connect,
\* clear, add, register read, disconnect) is a step of the main thread and leaves
\* the injector threads where they are: the injector sends with sendp and never
\* calls the manager, so the two never have a request on the connection together.
C19_ManagerUsedByMainThreadOnly ==
    [][ManagerState' # ManagerState => threads' = threads]_vars

\* the two run side by side: the injector is in the middle of a tick while the
\* main thread, connected, is about to read a register
C19_Witness ==
    /\ pc = "mon_read"
    /\ Connected
    /\ \E t \in 1..Len(threads) : threads[t].pc = "send" /\ threads[t].sent

\* C20: when a run has ended, after the disconnect of main's last line, no
\* connection opened during the run is still open.
C20_AllConnectionsClosedAtEnd ==
    pc = "done" => \A c \in 1..Len(conns) : conns[c] # "open"

\* the value a method returns when its remote call raised
FailureValue(op) ==
    IF op = "read_register" THEN -1
    ELSE IF op = "get_tables" THEN <<>>
    ELSE FALSE

\* the call the step has made, the last of the log
MadeCall == Len(log') = Len(log) + 1
NewCall == log'[Len(log')]

\* C21: every call of a SwitchManager operation returns to the caller: no state
\* has the caller stopped by an exception; a call made while the manager has no
\* open connection (never connected, connect failed, disconnected, or closed by
\* the remote side) fails; every failed call returns the failure value of its
\* method (False, -1 or []) and changes neither the tables nor the registers, and
\* no call changes client, transport or the connection, so the next call meets
\* the manager as the failed one found it and can succeed.
C21_OperationsFailByValue ==
    /\ [](pc # "raised")
    /\ [][MadeCall =>
            /\ (~Connected => ~NewCall.ok)
            /\ (~NewCall.ok =>
                  /\ NewCall.ret = FailureValue(NewCall.op)
                  /\ tables' = tables
                  /\ registers' = registers)
            /\ <<client, transport, conns>>' = <<client, transport, conns>>]_vars

\* on one connection a call has failed and the call after it has succeeded
C21_Witness ==
    /\ Len(log) = 2
    /\ ~log[1].ok
    /\ log[2].ok
    /\ Len(conns) = 1
    /\ Connected
    /\ fails = 1

\* a stop has been signalled to the injector threads: stop_probe_injection has set
\* running to False
StopSignalled == ~running /\ threads # <<>>

\* what a thread does once the stop is signalled: the rest of the tick it is in,
\* descriptor by descriptor, the sleep, and the exit at the loop test
AfterStopStep(t) ==
    LET th == threads[t]
        nx == threads'[t] IN
    CASE th.pc = "check"  -> nx.pc = "dead"
      [] th.pc = "create" -> \/ nx.pc = "dead"
                             \/ nx.pc = "send" /\ nx.i = th.i
      [] th.pc = "send"   -> \/ nx.pc = "dead"
                             \/ nx.pc = "create" /\ nx.i = th.i + 1
                             \/ nx.pc = "nap" /\ th.i = Len(Probes)
      [] th.pc = "nap"    -> nx.pc = "sleep"
      [] th.pc = "sleep"  -> nx.pc = "check"
      [] OTHER -> FALSE

\* C22: once stop_probe_injection has set running to False, the flag stays False for
\* the rest of the run and an injector thread starts no tick: at the loop test it
\* exits, and before that it only sends the descriptors left of the tick it was in
\* and sleeps once.
C22_NoNewTickAfterStop ==
    /\ [][StopSignalled => ~running']_vars
    /\ [][StopSignalled =>
            \A t \in 1..Len(threads) : threads'[t] # threads[t] => AfterStopStep(t)]_vars

\* the stop is signalled in the middle of a tick: the thread has sent descriptor 1
\* and still has descriptor 2 to send
C22_Witness ==
    /\ StopSignalled
    /\ \E t \in 1..Len(threads) :
         threads[t].pc = "create" /\ threads[t].i = 2 /\ threads[t].sent

\* C23: every start_probe_injection starts one more thread and makes it
\* probe_thread, whatever threads are alive; stop_probe_injection returns as soon
\* as probe_thread, the thread started last, has ended, so that is the only thread
\* known to be dead when it has returned.  (That an earlier thread is then still
\* sending is the state C23_Witness.)
C23_StartUncheckedStopJoinsLast ==
    /\ [][pc = "start_2" /\ pc' # "start_2" =>
            /\ Len(threads') = Len(threads) + 1
            /\ threads'[Len(threads')] = NewThread
            /\ probe_thread' = Len(threads')]_vars
    /\ [][pc = "stop_join" /\ pc' # "stop_join" =>
            probe_thread = 0 \/ threads[probe_thread].pc = "dead"]_vars
    /\ [](probe_thread = Len(threads) \/ pc = "start_2")

\* two starts, then a stop that has returned: both threads have sent, the second is
\* dead, the first is in the middle of a tick with a descriptor still to send
C23_Witness ==
    /\ stop_returned
    /\ Len(threads) = 2
    /\ threads[2].pc = "dead" /\ threads[2].sent
    /\ threads[1].pc = "send" /\ threads[1].sent

\* a step in which connect() was called: one more transport exists
ConnectStep == Len(conns') = Len(conns) + 1

\* C24: a connect() that fails has already replaced client and transport by the new,
\* unopened ones; the transports made before are as they were, an open one stays
\* open with nothing referring to it; and while the manager's transport is an
\* unopened one every operation called fails.
C24_FailedConnectReplacesConnection ==
    /\ [][ConnectStep /\ conns'[Len(conns')] = "unopened" =>
            /\ client' = Len(conns')
            /\ transport' = Len(conns')
            /\ \A c \in 1..Len(conns) : conns'[c] = conns[c]
            /\ ~Connected']_vars
    /\ [][MadeCall /\ client # 0 /\ conns[client] = "unopened" => ~NewCall.ok]_vars

\* a connection worked (a call succeeded on it), a second connect failed, and the
\* call made after it failed although the first connection is still open
C24_Witness ==
    /\ conns = <<"open", "unopened">>
    /\ client = 2
    /\ fails = 1
    /\ Len(log) = 2
    /\ log[1].ok
    /\ ~log[2].ok

\* building the entries of group g raises: a field is missing or does not convert
GroupRaises(g) ==
    IF group_exc(g) # "none" THEN TRUE
    ELSE IF add_ecmp_group_exc(g.dst_prefix[1], g.dst_prefix[2][1], g.group_id,
                               Len(g.next_hops)) # "none" THEN TRUE
    ELSE \E i \in 1..Len(g.next_hops) :
           IF nhop_exc(g.next_hops[i]) # "none" THEN TRUE
           ELSE add_next_hop_exc(g.group_id, BucketOf(i), g.next_hops[i].port,
                                 g.next_hops[i].mac) # "none"

\* configure_switch raises on switch s of an ECMP topology
SwitchRaises(s) ==
    \/ "switch_id" \notin DOMAIN s
    \/ \E j \in 1..Len(Get(s, "ecmp_groups", <<>>)) : GroupRaises(s.ecmp_groups[j])

\* C25: when configure_switch raises, the run stops there: the tables and the
\* connections are as the last statement before the exception left them and stay
\* so (the entries added stay installed, nothing is rolled back, no disconnect is
\* called: the manager's transport is still open); and with every connect
\* succeeding no call is ever made for a switch that comes after a switch on which
\* configure_switch raises.
C25_ExceptionEndsTheRun ==
    /\ [][pc' = "raised" /\ run' = run => tables' = tables /\ conns' = conns]_vars
    /\ [](pc = "raised" => transport # 0 /\ conns[transport] = "open")
    /\ [](kind = "ecmp" /\ fails = 0 =>
            \A i \in 1..Len(log) : \A s \in 1..(log[i].sw - 1) : ~SwitchRaises(Switches[s]))

\* configure_switch has raised on the first of two switches with a group and a
\* next-hop installed
C25_Witness ==
    /\ pc = "raised"
    /\ kind = "ecmp" /\ run = 1
    /\ Len(Switches) = 2 /\ sw = 1
    /\ tables["ecmp_group"] # {}
    /\ tables["ecmp_nhop"] # {}

\* the group id and the number of paths of an installed group entry, the group id
\* and the bucket of an installed next-hop entry
GroupIdOf(g) == Decode2(g.params[1])
NumPathsOf(g) == Decode2(g.params[2])
NhopGroupOf(e) == Decode2(e.key[1])
NhopBucketOf(e) == Decode2(e.key[2])

\* C26: when configure_switch has returned, every group entry in ecmp_group with
\* num_paths = n has a next-hop entry in ecmp_nhop for each of its buckets
\* 0..n-1, and every next-hop entry in ecmp_nhop has its group in ecmp_group.
C26_GroupsAndNextHopsComplete ==
    pc = "pop_disc" =>
      /\ \A g \in tables["ecmp_group"] : \A b \in 0..(NumPathsOf(g) - 1) :
           \E e \in tables["ecmp_nhop"] :
             NhopGroupOf(e) = GroupIdOf(g) /\ NhopBucketOf(e) = b
      /\ \A e \in tables["ecmp_nhop"] :
           \E g \in tables["ecmp_group"] : GroupIdOf(g) = NhopGroupOf(e)

\* the number of entries configure_switch adds for the switches 1..s of a HULA
\* topology: its flowlet entries and its probe forwarding entries
RECURSIVE HulaEntryCount(_)
HulaEntryCount(s) ==
    IF s = 0 THEN 0
    ELSE Len(Get(Switches[s], "flowlet_entries", <<>>))
         + Len(Get(Switches[s], "probe_entries", <<>>)) + HulaEntryCount(s - 1)

\* C27: in a run of hula_controller.main an injector thread exists only once the add
\* for every entry of every switch of the topology has been issued, and no table
\* call is made from then on, so the first probe comes after the whole
\* configuration; and the connection changes state after that only at the final
\* disconnect, when every injector thread has ended and running is False.
C27_ProbesAfterConfigurationJoinBeforeDisconnect ==
    /\ [](kind = "hula" /\ threads # <<>> =>
            Len(SelectSeq(log, IsAdd)) = HulaEntryCount(Len(Switches)))
    /\ [][kind = "hula" /\ threads # <<>> => log' = log /\ tables' = tables]_vars
    /\ [][kind = "hula" /\ threads # <<>> /\ conns' # conns =>
            ~running /\ \A t \in 1..Len(threads) : threads[t].pc = "dead"]_vars

\* a run over two switches with entries has ended: the injector has sent, is dead,
\* and the connection is closed
C27_Witness ==
    /\ kind = "hula"
    /\ pc = "done"
    /\ Len(Switches) = 2
    /\ HulaEntryCount(2) >= 2
    /\ conns = <<"closed">>
    /\ \E t \in 1..Len(threads) : threads[t].sent /\ threads[t].pc = "dead"

\* the entry for the key of call c in the tables of the switch at the manager's
\* address
InstalledFor(c) == {e \in tables[c.table] : e.key = c.key}

\* C28: every add of the run that succeeded, for whichever switch of the topology
\* it was made, has put its key into the tables of the one switch the manager was
\* created for (tables): connect takes no target, so the entries of all switches
\* of the file are in the same tables.
C28_AllSwitchesIntoOneSwitch ==
    \A i \in 1..Len(log) :
      IsAdd(log[i]) /\ log[i].ok => InstalledFor(log[i]) # {}

\* a run over two switches has ended and the group table of the one switch holds a
\* group added for switch 1 and a group added for switch 2
C28_Witness ==
    /\ pc = "done"
    /\ kind = "ecmp"
    /\ \E i, j \in 1..Len(log) :
         /\ log[i].sw = 1 /\ log[j].sw = 2
         /\ IsAdd(log[i]) /\ IsAdd(log[j])
         /\ log[i].table = "ecmp_group" /\ log[j].table = "ecmp_group"
         /\ log[i].ok /\ log[j].ok
         /\ InstalledFor(log[i]) # {} /\ InstalledFor(log[j]) # {}
         /\ log[i].key # log[j].key

\* a step of monitor_path_utilization: a read, the call of the sleep, or its return
\* and the duration test
MonitorStep ==
    /\ pc \in {"mon_read", "mon_nap", "mon_sleep"}
    /\ <<pc, mi, polls>>' # <<pc, mi, polls>>

\* C29: a step of monitor_path_utilization changes neither the tables nor the
\* registers of the switch and issues no table call; a read that fails leaves -1
\* in the variable it was read into and the loop goes on with the next read of
\* the round (or with the sleep after the last one), exactly as after a read that
\* succeeded.
C29_MonitoringIsReadOnly ==
    /\ [][MonitorStep => tables' = tables /\ registers' = registers /\ log' = log]_vars
    /\ [][MonitorStep /\ pc = "mon_read" /\ fails' > fails =>
            /\ IF MonitorReads[mi].reg = "path_util_reg"
               THEN last_read'.util = -1 ELSE last_read'.port = -1
            /\ IF mi < Len(MonitorReads) THEN pc' = "mon_read" /\ mi' = mi + 1
               ELSE pc' = "mon_nap"]_vars

\* the read of path_util_reg for ToR 3 has failed and the read of best_port_reg
\* that follows it has been made and has succeeded
C29_Witness ==
    /\ pc = "mon_sleep"
    /\ last_read.tor_id = 3
    /\ last_read.util = -1
    /\ last_read.port >= 1

\* the injector threads that are still in their loop
ActiveInjectors == {t \in 1..Len(threads) : threads[t].pc # "dead"}

\* the caller is inside a start_probe_injection that follows a stop that has
\* returned: the thread of the previous start has been joined
RestartAfterStop ==
    /\ pc = "start_2"
    /\ probe_thread # 0
    /\ threads[probe_thread].pc = "dead"

\* C30: stop_probe_injection neither raises nor leaves running set: when it has
\* returned (and no start was called since) running is False; and a
\* start_probe_injection that follows a stop that has returned leaves exactly one
\* injector thread in its loop, the one it started.
C30_StopLeavesOneInjectorAfterRestart ==
    /\ [](pc # "raised")
    /\ [](stop_returned => ~running)
    /\ [][RestartAfterStop /\ pc' # "start_2" => ActiveInjectors' = {Len(threads')}]_vars

====
